---- MODULE Spec2Model ----
(***************************************************************************)
(* Conversation MCTS engine (app/services/mcts) and the oracles it calls   *)
(* (app/services/conversation_analysis), as a state machine.               *)
(*                                                                         *)
(* Scores are fixed-point: a score s in the code is the integer            *)
(* 10 * s here (tenths).  avg_score is kept as the exact quotient           *)
(* [num, den] that update() computes, so comparisons are done by           *)
(* cross-multiplication.                                                   *)
(***************************************************************************)
EXTENDS Integers, Sequences, FiniteSets, TLC

\* ---------------------------------------------------------------- bounds
\* A run has at most MaxRoots initial responses and MaxIterations iterations,
\* and its fan-outs are bounded by num_roots^2 * iterations <= MaxFanOutWork.
MaxRoots == 2
MaxIterations == 7
MaxFanOutWork == 8
\* generate_initial_branches is asked for 1..MaxBranches replies and its
\* oracle answers with up to MaxResponses of them
MaxBranches == 5
MaxResponses == 4
\* analyze_conversation reads a chat history of up to MaxHistory messages
MaxHistory == 2

\* The numeric overall_score values the Score oracle answers with, in tenths
\* (its fallback, DefaultOverallScore, is the other score of the model)
ScoreValues == {10}

\* ------------------------------------------------------ program constants
DEFAULT_MAX_CHILDREN == 3
PRUNING_INTERVAL == 5
MIN_VISITS_FOR_PRUNING == 5
ThresholdRatioNum == 7
ThresholdRatioDen == 10
\* ConversationScorer._get_default_scores: overall_score 0.5, in tenths
DefaultOverallScore == 5
ScoreScale == 2 * DefaultOverallScore

VARIABLES
    cfg,              \* config of the run: number of initial responses, iterations
    nodes,            \* arena of MCTSNode objects, indexed by identity 1..Len(nodes)
    root_nodes,       \* run(): root_nodes, a sequence of node identities
    stats,            \* run(): stats dictionary
    iteration,        \* run(): loop variable
    pc,               \* position of run(): "loop","gather","integrate","done","failed"
    nodes_to_process, \* run(): expansion target of every root, in root order
    tasks,            \* the fan-out coroutines of the current iteration
    completed,        \* task indices in the order in which the tasks finished
    results,          \* what asyncio.gather returned
    intIdx,           \* position of the integration loop over zip(nodes_to_process, results)
    snap,             \* arena and stats as they were when the fan-out of this iteration started
    base_messages,    \* run(): the list object base_messages
    calls,            \* the oracle calls issued so far, by oracle
    gen,              \* one call of ResponseGenerator.generate_initial_branches
    svc,              \* one call of ConversationAnalysisService.analyze_conversation
    scorer,           \* one call of ConversationScorer._validate_scoring_result
    analyzer          \* one call of ConversationAnalyzer.analyze_best_path

engineVars == <<cfg, nodes, root_nodes, stats, iteration, pc, nodes_to_process,
                tasks, completed, results, intIdx, snap, base_messages, calls>>

vars == <<cfg, nodes, root_nodes, stats, iteration, pc, nodes_to_process,
          tasks, completed, results, intIdx, snap, base_messages, calls,
          gen, svc, scorer, analyzer>>

GenIdle == [pc |-> "idle"]
SvcIdle == [pc |-> "idle"]
ScorerIdle == [pc |-> "idle"]
AnalyzerIdle == [pc |-> "idle"]

\* No oracle call has been issued
NoCalls == [expansion |-> 0, simulate |-> 0, score |-> 0]

\* ------------------------------------------------------------------ node
NoParent == 0

\* MCTSNode.__init__
NewNode(response, index) ==
    [response |-> response, parent |-> NoParent, children |-> <<>>,
     index |-> index, visits |-> 0, total_score |-> 0,
     avg_score |-> [num |-> 0, den |-> 1],
     sub_history |-> "empty", metrics |-> "unset"]

\* is_fully_expanded with ">" for ">="
IsFullyExpandedStrict(N, n) == Len(N[n].children) > DEFAULT_MAX_CHILDREN

\* MCTSNode.is_fully_expanded
IsFullyExpanded(N, n) == Len(N[n].children) >= DEFAULT_MAX_CHILDREN

\* MCTSNode.add_child(self, child) on the node objects n and c
AddChildNode(N, n, c) ==
    LET M == [N EXCEPT ![c].parent = n, ![c].index = Len(N[n].children)]
    IN  [M EXCEPT ![n].children = Append(M[n].children, c)]

\* MCTSNode.add_child in run(): the child object is created by the task and
\* gets its identity (the next free slot of the arena) when it is attached.
AddChild(N, n, response) ==
    AddChildNode(Append(N, NewNode(response, 0)), n, Len(N) + 1)

\* MCTSNode.update with a numeric score
Update(N, n, score) ==
    LET v == N[n].visits + 1
        t == N[n].total_score + score
    IN  [N EXCEPT ![n].visits = v,
                  ![n].total_score = t,
                  ![n].avg_score = [num |-> t, den |-> v]]

\* MCTSNode.update with a score that is not a number: visits += 1 is done,
\* total_score += score raises TypeError
UpdateRaises(N, n) == [N EXCEPT ![n].visits = N[n].visits + 1]

\* -------------------------------------------------------------- UCB1
\* ln(n) * 10^6, rounded down
LnMicro(n) ==
    CASE n = 1 -> 0
      [] n = 2 -> 693147
      [] n = 3 -> 1098612
      [] n = 4 -> 1386294
      [] n = 5 -> 1609437
      [] n = 6 -> 1791759
      [] n = 7 -> 1945910
      [] n = 8 -> 2079441
      [] n = 9 -> 2197224
      [] n = 10 -> 2302585
      [] n = 11 -> 2397895
      [] n = 12 -> 2484906
      [] n = 13 -> 2564949
      [] n = 14 -> 2639057
      [] n = 15 -> 2708050
      [] n = 16 -> 2772588
      [] n = 17 -> 2833213
      [] n = 18 -> 2890371
      [] n = 19 -> 2944438
      [] n = 20 -> 2995732
      [] OTHER -> 3044522

\* floor(sqrt(x)) by bisection: the root lies in lo..hi
RECURSIVE SqrtBetween(_, _, _)
SqrtBetween(x, lo, hi) ==
    IF lo >= hi THEN lo
    ELSE LET mid == (lo + hi + 1) \div 2
         IN  IF mid * mid <= x THEN SqrtBetween(x, mid, hi)
             ELSE SqrtBetween(x, lo, mid - 1)

ISqrt(x) == SqrtBetween(x, 0, 4096)

ExplorationConstantMilli == 1414

\* MCTSNode._ucb1_score in thousandths; inf for an unvisited child
Ucb1Score(N, p, c) ==
    IF N[c].visits = 0
    THEN [inf |-> TRUE, val |-> 0]
    ELSE [inf |-> FALSE,
          val |-> (1000 * N[c].avg_score.num) \div (ScoreScale * N[c].avg_score.den)
                  + (ExplorationConstantMilli
                     * ISqrt((2 * LnMicro(N[p].visits)) \div N[c].visits)) \div 1000]

KeyGreater(a, b) ==
    \/ a.inf /\ ~b.inf
    \/ ~a.inf /\ ~b.inf /\ a.val > b.val

\* best_child with a max() that returns the last maximal element
BestChildLast(N, p) ==
    LET ch == N[p].children
        i == CHOOSE k \in 1..Len(ch) :
                /\ \A j \in 1..Len(ch) :
                      ~KeyGreater(Ucb1Score(N, p, ch[j]), Ucb1Score(N, p, ch[k]))
                /\ \A j \in (k + 1)..Len(ch) :
                      KeyGreater(Ucb1Score(N, p, ch[k]), Ucb1Score(N, p, ch[j]))
    IN  ch[i]

\* MCTSNode.best_child: max() returns the first maximal element
BestChild(N, p) ==
    LET ch == N[p].children
        i == CHOOSE k \in 1..Len(ch) :
                /\ \A j \in 1..Len(ch) :
                      ~KeyGreater(Ucb1Score(N, p, ch[j]), Ucb1Score(N, p, ch[k]))
                /\ \A j \in 1..(k - 1) :
                      KeyGreater(Ucb1Score(N, p, ch[k]), Ucb1Score(N, p, ch[j]))
    IN  ch[i]

\* _select_node with "while node.children": the descent does not wait for
\* the node to be fully expanded
RECURSIVE SelectNodeAnyChildren(_, _)
SelectNodeAnyChildren(N, n) ==
    IF N[n].children # <<>>
    THEN SelectNodeAnyChildren(N, BestChild(N, n))
    ELSE n


\* MCTSAlgorithm._select_node
RECURSIVE SelectNode(_, _)
SelectNode(N, n) ==
    IF N[n].children # <<>> /\ IsFullyExpanded(N, n)
    THEN SelectNode(N, BestChild(N, n))
    ELSE n

\* ------------------------------------------------------------ tree ops
\* backpropagate without the walk up: only the node itself is updated
BackpropagateNodeOnly(N, n, score) ==
    IF n = NoParent THEN N ELSE Update(N, n, score)

\* backpropagate with "while current.parent": the walk stops below the root
RECURSIVE BackpropagateBelowRoot(_, _, _)
BackpropagateBelowRoot(N, n, score) ==
    IF n = NoParent \/ N[n].parent = NoParent THEN N
    ELSE BackpropagateBelowRoot(Update(N, n, score), N[n].parent, score)

\* TreeOperations.backpropagate with a numeric score
RECURSIVE Backpropagate(_, _, _)
Backpropagate(N, n, score) ==
    IF n = NoParent THEN N
    ELSE Backpropagate(Update(N, n, score), N[n].parent, score)

RECURSIVE SumSeq(_)
SumSeq(s) == IF s = <<>> THEN 0 ELSE Head(s) + SumSeq(Tail(s))

\* _count_descendants that counts nothing: a pruned child counts as one node
CountDescendantsNone(N, n) == 0


\* TreeOperations._count_descendants
RECURSIVE CountDescendants(_, _)
CountDescendants(N, n) ==
    Len(N[n].children)
    + SumSeq([i \in 1..Len(N[n].children) |-> CountDescendants(N, N[n].children[i])])

\* threshold = root.avg_score, without the ratio
ThresholdWithoutRatio(N, root) == N[root].avg_score


\* threshold = root.avg_score * threshold_ratio, as a quotient
Threshold(N, root) ==
    [num |-> N[root].avg_score.num * ThresholdRatioNum,
     den |-> N[root].avg_score.den * ThresholdRatioDen]

\* the pruning test without "child.visits > 0"
BelowThresholdUnvisited(N, c, thr) ==
    N[c].avg_score.num * thr.den < thr.num * N[c].avg_score.den

\* child.visits > 0 and child.avg_score < threshold
BelowThreshold(N, c, thr) ==
    /\ N[c].visits > 0
    /\ N[c].avg_score.num * thr.den < thr.num * N[c].avg_score.den

\* TreeOperations._prune_node_children: the loop over node.children from
\* position i on, with children_to_keep and pruned accumulated so far
RECURSIVE PruneLoop(_, _, _, _, _, _)
PruneLoop(N, n, thr, i, keep, pruned) ==
    IF i > Len(N[n].children)
    THEN [nodes |-> [N EXCEPT ![n].children = keep], pruned |-> pruned]
    ELSE LET child == N[n].children[i] IN
         IF BelowThreshold(N, child, thr)
         THEN PruneLoop(N, n, thr, i + 1, keep,
                        pruned + 1 + CountDescendants(N, child))
         ELSE LET sub == PruneLoop(N, child, thr, 1, <<>>, 0)
              IN  PruneLoop(sub.nodes, n, thr, i + 1, Append(keep, child),
                            pruned + sub.pruned)

PruneNodeChildren(N, n, thr) ==
    IF N[n].children = <<>>
    THEN [nodes |-> N, pruned |-> 0]
    ELSE PruneLoop(N, n, thr, 1, <<>>, 0)

\* TreeOperations.prune_branches: the loop over root_nodes from position j on
RECURSIVE PruneBranchesFrom(_, _, _, _)
PruneBranchesFrom(N, roots, j, pruned) ==
    IF j > Len(roots)
    THEN [nodes |-> N, pruned |-> pruned]
    ELSE IF N[roots[j]].visits < MIN_VISITS_FOR_PRUNING
         THEN PruneBranchesFrom(N, roots, j + 1, pruned)
         ELSE LET r == PruneNodeChildren(N, roots[j], Threshold(N, roots[j]))
              IN  PruneBranchesFrom(r.nodes, roots, j + 1, pruned + r.pruned)

PruneBranches(N, roots) == PruneBranchesFrom(N, roots, 1, 0)

\* TreeOperations.get_tree_depths
RECURSIVE GetTreeDepths(_, _, _)
RECURSIVE DepthsOfChildren(_, _, _, _)
GetTreeDepths(N, n, depth) ==
    IF N[n].children = <<>> THEN <<depth>>
    ELSE DepthsOfChildren(N, N[n].children, 1, depth + 1)
DepthsOfChildren(N, ch, i, depth) ==
    IF i > Len(ch) THEN <<>>
    ELSE GetTreeDepths(N, ch[i], depth) \o DepthsOfChildren(N, ch, i + 1, depth)

\* TreeOperations.calculate_average_depth, as the quotient sum / count
RECURSIVE AllDepths(_, _, _)
AllDepths(N, roots, j) ==
    IF j > Len(roots) THEN <<>>
    ELSE GetTreeDepths(N, roots[j], 0) \o AllDepths(N, roots, j + 1)

CalculateAverageDepth(N, roots) ==
    LET d == AllDepths(N, roots, 1)
    IN  IF d = <<>> THEN [num |-> 0, den |-> 1]
        ELSE [num |-> SumSeq(d), den |-> Len(d)]

\* ------------------------------------------------------------- oracles
\* The answers an oracle call can come back with.
\*   Expansion: transport/parse failure, a dict without "response", an empty
\*              string, or a fresh reply
ExpansionAnswers == {"fail", "badshape", "empty", "ok"}
\*   Simulate:  failure, a well-formed simulation, or a parseable answer
\*              whose "simulation" entries are not role/content pairs
SimulateAnswers == {"fail", "ok", "badentries"}
\*   Score:     failure, a numeric overall_score, or a parseable answer whose
\*              overall_score is not a number
ScoreAnswers ==
    {[kind |-> "fail", value |-> 0], [kind |-> "nonnumeric", value |-> 0]}
    \cup {[kind |-> "ok", value |-> v] : v \in ScoreValues}

\* ResponseGenerator.generate_expansion_response: None on a failure and on an
\* answer without "response", else result["response"], which may be empty
ExpansionResponse(ans) ==
    CASE ans = "ok" -> "reply"
      [] ans = "empty" -> "empty"
      [] OTHER -> "nil"

\* ResponseGenerator.generate_expansion_response followed by
\* "if new_response: new_children.append(MCTSNode(new_response))"
NewChildren(ans, response) == IF ans = "ok" THEN <<response>> ELSE <<>>

\* ConversationSimulator.simulate_conversation: what ends up in
\* simulation_data["simulation"]
SimulationOf(ans) ==
    CASE ans = "fail" -> "empty"
      [] ans = "ok" -> "valid"
      [] OTHER -> "invalid"

\* ConversationScorer.score_simulation: score_data["overall_score"]
OverallScoreOf(ans) ==
    CASE ans.kind = "fail" -> [numeric |-> TRUE, value |-> DefaultOverallScore]
      [] ans.kind = "ok" -> [numeric |-> TRUE, value |-> ans.value]
      [] OTHER -> [numeric |-> FALSE, value |-> 0]

\* ConversationScorer.score_simulation: score_data["general_metrics"]
MetricsOf(ans) == IF ans.kind = "fail" THEN "default" ELSE "scored"

\* The reply text an Expansion call of this iteration and root comes back with
NewResponse(i, j) == 100 * (i + 1) + j

\* ----------------------------------------------------------------- run
\* run(): base_messages, the history of the chat as Messages
BaseMessages == <<[role |-> "user", content |-> 0]>>

\* _build_conversation_path, lines 137-144: the responses from the root down
\* to the node
RECURSIVE RootPath(_, _)
RootPath(N, n) ==
    IF N[n].parent = NoParent THEN <<N[n].response>>
    ELSE Append(RootPath(N, N[n].parent), N[n].response)

\* MCTSAlgorithm._build_conversation_path
BuildConversationPath(base, N, n) ==
    LET path == Tail(RootPath(N, n))
    IN  base \o [i \in 1..Len(path) |-> [role |-> "assistant", content |-> path[i]]]

\* "result = base_messages": the appends of lines 148-149 go to the caller's
\* list
BaseMessagesAliased(base, result) == result

\* _build_conversation_path, line 147, "result = base_messages.copy()": the
\* caller's list after a call that returned result
BaseMessagesAfterBuild(base, result) == base

\* base_messages after the tasks of the targets 1..j have run up to their
\* first oracle call, each of them building its path once (line 93 or 106)
RECURSIVE BaseAfterStarts(_, _, _, _)
BaseAfterStarts(base, N, targets, j) ==
    IF j = 0 THEN base
    ELSE LET b == BaseAfterStarts(base, N, targets, j - 1)
         IN  BaseMessagesAfterBuild(b, BuildConversationPath(b, N, targets[j]))

\* _expand_and_simulate, lines 118-120: the Messages made of the entries of
\* simulation_data["simulation"]
SimulationMessages(simulation) ==
    IF simulation = "valid"
    THEN <<[role |-> "user", content |-> -1], [role |-> "assistant", content |-> -2]>>
    ELSE <<>>

\* _expand_and_simulate, lines 118-120: extended_sim_messages, the
\* conversation the Score call is issued with
ExtendedSimMessages(t) == t.extended_messages \o SimulationMessages(t.simulation)

Configs ==
    {c \in [num_roots : 0..MaxRoots, iterations : 0..MaxIterations] :
        c.num_roots * c.num_roots * c.iterations <= MaxFanOutWork}

K == Len(root_nodes)

InitStats(c) ==
    [total_iterations |-> c.iterations, nodes_created |-> c.num_roots,
     nodes_evaluated |-> 0, pruned_branches |-> 0, parallel_evaluations |-> 0,
     average_depth_explored |-> [num |-> 0, den |-> 1]]

\* run(), lines 34-45: the roots and the statistics
Init ==
    \E c \in Configs :
        /\ gen = GenIdle
        /\ svc = SvcIdle
        /\ scorer = ScorerIdle
        /\ analyzer = AnalyzerIdle
        /\ base_messages = BaseMessages
        /\ calls = NoCalls
        /\ cfg = c
        /\ nodes = [i \in 1..c.num_roots |-> NewNode(i, i - 1)]
        /\ root_nodes = [i \in 1..c.num_roots |-> i]
        /\ stats = InitStats(c)
        /\ iteration = 0
        /\ pc = "loop"
        /\ nodes_to_process = <<>>
        /\ tasks = <<>>
        /\ completed = <<>>
        /\ results = <<>>
        /\ intIdx = 0
        /\ snap = <<>>

\* a task that asks for an expansion of every target that is not fully
\* expanded, visited or not
StartTaskExpandsUnvisited(base, N, node) ==
    [pc |-> IF ~IsFullyExpanded(N, node) THEN "expansion" ELSE "simulate",
     node |-> node,
     extended_messages |->
         IF ~IsFullyExpanded(N, node)
         THEN <<>> ELSE BuildConversationPath(base, N, node),
     new_response |-> "unset",
     new_children |-> <<>>,
     simulation |-> "none",
     metrics |-> "none",
     score |-> [numeric |-> TRUE, value |-> 0]]


\* a task that holds on to the first node of the arena instead of its own
\* expansion target
StartTaskSharedNode(base, N, node) ==
    [pc |-> IF ~IsFullyExpanded(N, node) /\ N[node].visits > 0
            THEN "expansion" ELSE "simulate",
     node |-> 1,
     extended_messages |->
         IF ~IsFullyExpanded(N, node) /\ N[node].visits > 0
         THEN <<>> ELSE BuildConversationPath(base, N, 1),
     new_response |-> "unset",
     new_children |-> <<>>,
     simulation |-> "none",
     metrics |-> "none",
     score |-> [numeric |-> TRUE, value |-> 0]]

\* _expand_and_simulate up to its first suspension: the expansion call is
\* issued only for a visited node that is not fully expanded.  new_response
\* and new_children are the task's locals of these names; simulation, metrics
\* and score are its simulation_data and score_data; extended_messages is the
\* conversation of line 106, which the Simulate call is issued with.
StartTask(base, N, node) ==
    [pc |-> IF ~IsFullyExpanded(N, node) /\ N[node].visits > 0
            THEN "expansion" ELSE "simulate",
     node |-> node,
     extended_messages |->
         IF ~IsFullyExpanded(N, node) /\ N[node].visits > 0
         THEN <<>> ELSE BuildConversationPath(base, N, node),
     new_response |-> "unset",
     new_children |-> <<>>,
     simulation |-> "none",
     metrics |-> "none",
     score |-> [numeric |-> TRUE, value |-> 0]]

\* The tasks T have just been started: each of them has issued its first
\* oracle call, Expansion (line 96) or Simulate (line 108)
CallsIssued(c, T) ==
    [c EXCEPT !.expansion = @ + Cardinality({j \in DOMAIN T : T[j].pc = "expansion"}),
              !.simulate = @ + Cardinality({j \in DOMAIN T : T[j].pc = "simulate"})]

\* run(), lines 47-58: selection for every root, then the fan-out
FanOut ==
    /\ pc = "loop"
    /\ iteration < cfg.iterations
    /\ nodes_to_process' = [j \in 1..K |-> SelectNode(nodes, root_nodes[j])]
    /\ tasks' = [j \in 1..K |->
                     StartTask(BaseAfterStarts(base_messages, nodes,
                                               nodes_to_process', j - 1),
                               nodes, nodes_to_process'[j])]
    /\ base_messages' = BaseAfterStarts(base_messages, nodes, nodes_to_process', K)
    /\ calls' = CallsIssued(calls, tasks')
    /\ completed' = <<>>
    /\ snap' = [nodes |-> nodes, stats |-> stats]
    /\ pc' = "gather"
    /\ UNCHANGED <<cfg, nodes, root_nodes, stats, iteration, results, intIdx>>

\* _expand_and_simulate, lines 96-113: the Expansion call returns and the
\* Simulate call is issued
ExpansionReturns(j) ==
    /\ j \in DOMAIN tasks
    /\ tasks[j].pc = "expansion"
    /\ \E ans \in ExpansionAnswers :
        tasks' = [tasks EXCEPT ![j].pc = "simulate",
                               ![j].extended_messages =
                                   BuildConversationPath(base_messages, nodes,
                                                         tasks[j].node),
                               ![j].new_response = ExpansionResponse(ans),
                               ![j].new_children =
                                   NewChildren(ans, NewResponse(iteration, j))]
    /\ base_messages' =
           BaseMessagesAfterBuild(base_messages,
                                  BuildConversationPath(base_messages, nodes,
                                                        tasks[j].node))
    /\ calls' = [calls EXCEPT !.simulate = @ + 1]
    /\ UNCHANGED <<cfg, nodes, root_nodes, stats, iteration, pc,
                   nodes_to_process, completed, results, intIdx, snap>>

\* a task that issues its Simulate call again when the call has failed
AfterSimulateRetry(simulation) ==
    CASE simulation = "invalid" -> "raised"
      [] simulation = "empty" -> "simulate"
      [] OTHER -> "score"

\* _expand_and_simulate, lines 115-122: where the task is after its Simulate
\* call has returned: Message(**msg) has raised, or the Score call is issued
AfterSimulate(simulation) ==
    IF simulation = "invalid" THEN "raised" ELSE "score"

\* _expand_and_simulate, lines 108-120: the Simulate call returns, the node
\* takes the simulation, and the simulated entries are turned into Messages
SimulateReturns(j) ==
    /\ j \in DOMAIN tasks
    /\ tasks[j].pc = "simulate"
    /\ \E ans \in SimulateAnswers :
        /\ nodes' = [nodes EXCEPT ![tasks[j].node].sub_history = SimulationOf(ans)]
        /\ tasks' = [tasks EXCEPT ![j].pc = AfterSimulate(SimulationOf(ans)),
                                  ![j].simulation = SimulationOf(ans)]
        /\ calls' = CASE AfterSimulate(SimulationOf(ans)) = "score" ->
                             [calls EXCEPT !.score = @ + 1]
                      [] AfterSimulate(SimulationOf(ans)) = "simulate" ->
                             [calls EXCEPT !.simulate = @ + 1]
                      [] OTHER -> calls
    /\ UNCHANGED <<cfg, root_nodes, stats, iteration, pc, nodes_to_process,
                   completed, results, intIdx, snap, base_messages>>

\* _expand_and_simulate, lines 122-132: the Score call returns, the node
\* takes the metrics, and the task returns (overall_score, new_children)
ScoreReturns(j) ==
    /\ j \in DOMAIN tasks
    /\ tasks[j].pc = "score"
    /\ \E ans \in ScoreAnswers :
        /\ nodes' = [nodes EXCEPT ![tasks[j].node].metrics = MetricsOf(ans)]
        /\ tasks' = [tasks EXCEPT ![j].pc = "done",
                                  ![j].metrics = MetricsOf(ans),
                                  ![j].score = OverallScoreOf(ans)]
    /\ completed' = Append(completed, j)
    /\ UNCHANGED <<cfg, root_nodes, stats, iteration, pc, nodes_to_process,
                   results, intIdx, snap,
                   base_messages, calls>>

\* a join that returns as soon as one task has returned
GatherReturnsFirst(T) == \E j \in DOMAIN T : T[j].pc = "done"

\* asyncio.gather returns once every task has returned
GatherReturns(T) == \A j \in DOMAIN T : T[j].pc = "done"

\* a join that hands back the results in the order of completion
GatherAsCompleted(T, order) ==
    [j \in DOMAIN T |->
        IF j \in DOMAIN order
        THEN [score |-> T[order[j]].score, new_children |-> T[order[j]].new_children]
        ELSE [score |-> T[j].score, new_children |-> T[j].new_children]]

\* asyncio.gather: the results, in the order of the tasks it was given
Gather(T, order) ==
    [j \in DOMAIN T |-> [score |-> T[j].score, new_children |-> T[j].new_children]]

\* run(), lines 58-59
Join ==
    /\ pc = "gather"
    /\ GatherReturns(tasks)
    /\ results' = Gather(tasks, completed)
    /\ stats' = [stats EXCEPT !.parallel_evaluations = @ + Len(tasks)]
    /\ intIdx' = 1
    /\ pc' = "integrate"
    /\ UNCHANGED <<cfg, nodes, root_nodes, iteration, nodes_to_process, tasks,
                   completed, snap,
                   base_messages, calls>>

\* run(), line 58: a task raised, gather re-raises and run() is left; the
\* other tasks are not cancelled
JoinRaises ==
    /\ pc = "gather"
    /\ \E j \in DOMAIN tasks : tasks[j].pc = "raised"
    /\ pc' = "failed"
    /\ UNCHANGED <<cfg, nodes, root_nodes, stats, iteration, nodes_to_process,
                   tasks, completed, results, intIdx, snap,
                   base_messages, calls>>

\* "for child in new_children: node.add_child(child)"
RECURSIVE AddChildren(_, _, _)
AddChildren(N, n, cs) ==
    IF cs = <<>> THEN N ELSE AddChildren(AddChild(N, n, Head(cs)), n, Tail(cs))

\* run(), lines 61-67: the body of the integration loop for one
\* ((root, node), (score, new_children)); raised tells whether
\* backpropagate raised on the first update
IntegrateOne(N, st, node, res) ==
    LET attached == AddChildren(N, node, res.new_children)
        created == [st EXCEPT !.nodes_created = @ + Len(res.new_children)]
    IN  IF res.score.numeric
        THEN [nodes |-> Backpropagate(attached, node, res.score.value),
              stats |-> [created EXCEPT !.nodes_evaluated = @ + 1],
              raised |-> FALSE]
        ELSE [nodes |-> UpdateRaises(attached, node),
              stats |-> created,
              raised |-> TRUE]

\* run(), lines 61-67: one turn of the integration loop
IntegrateRoot ==
    /\ pc = "integrate"
    /\ intIdx <= Len(results)
    /\ LET r == IntegrateOne(nodes, stats, nodes_to_process[intIdx], results[intIdx])
       IN  /\ nodes' = r.nodes
           /\ stats' = r.stats
           /\ intIdx' = IF r.raised THEN intIdx ELSE intIdx + 1
           /\ pc' = IF r.raised THEN "failed" ELSE pc
    /\ UNCHANGED <<cfg, root_nodes, iteration, nodes_to_process, tasks,
                   completed, results, snap,
                   base_messages, calls>>

\* "iteration > 0 and iteration % MCTSConfig.PRUNING_INTERVAL == 0"
PruningDue(i) == i > 0 /\ i % PRUNING_INTERVAL = 0

\* run(), lines 69-71, and the step to the next iteration
EndIteration ==
    /\ pc = "integrate"
    /\ intIdx > Len(results)
    /\ LET p == PruneBranches(nodes, root_nodes) IN
       IF PruningDue(iteration)
       THEN /\ nodes' = p.nodes
            /\ stats' = [stats EXCEPT !.pruned_branches = @ + p.pruned]
       ELSE UNCHANGED <<nodes, stats>>
    /\ iteration' = iteration + 1
    /\ pc' = "loop"
    /\ tasks' = IF GatherReturns(tasks) THEN <<>> ELSE tasks
    /\ nodes_to_process' = <<>>
    /\ completed' = <<>>
    /\ results' = <<>>
    /\ intIdx' = 0
    /\ snap' = <<>>
    /\ UNCHANGED <<cfg, root_nodes,
                   base_messages, calls>>

\* run(), lines 73-77
Finish ==
    /\ pc = "loop"
    /\ iteration >= cfg.iterations
    /\ stats' = [stats EXCEPT !.average_depth_explored =
                                  CalculateAverageDepth(nodes, root_nodes)]
    /\ pc' = "done"
    /\ UNCHANGED <<cfg, nodes, root_nodes, iteration, nodes_to_process, tasks,
                   completed, results, intIdx, snap,
                   base_messages, calls>>

Next ==
    \/ FanOut /\ UNCHANGED <<gen, svc, scorer, analyzer>>
    \/ \E j \in 1..MaxRoots : ExpansionReturns(j) /\ UNCHANGED <<gen, svc, scorer, analyzer>>
    \/ \E j \in 1..MaxRoots : SimulateReturns(j) /\ UNCHANGED <<gen, svc, scorer, analyzer>>
    \/ \E j \in 1..MaxRoots : ScoreReturns(j) /\ UNCHANGED <<gen, svc, scorer, analyzer>>
    \/ Join /\ UNCHANGED <<gen, svc, scorer, analyzer>>
    \/ JoinRaises /\ UNCHANGED <<gen, svc, scorer, analyzer>>
    \/ IntegrateRoot /\ UNCHANGED <<gen, svc, scorer, analyzer>>
    \/ EndIteration /\ UNCHANGED <<gen, svc, scorer, analyzer>>
    \/ Finish /\ UNCHANGED <<gen, svc, scorer, analyzer>>

Spec == Init /\ [][Next]_vars

\* ------------------------------------------- a run that is under way
\* A run over one initial response whose first six iterations went without
\* an oracle failure and with overall_score 1.0 every time, at the head of
\* its seventh iteration: the root was evaluated four times and got three
\* children, the first two children were evaluated once each, and the
\* pruning of iteration 5 removed nothing.
LateIterations == 11

LateStart == PRUNING_INTERVAL + 1

LateNodes ==
    LET s == CHOOSE v \in ScoreValues : \A w \in ScoreValues : v >= w
        evaluated(node, v, t) ==
            [node EXCEPT !.visits = v, !.total_score = t,
                         !.avg_score = [num |-> t, den |-> v],
                         !.sub_history = "valid", !.metrics = "scored"]
        child(i) == [NewNode(NewResponse(i, 1), i - 1) EXCEPT !.parent = 1]
    IN  << evaluated([NewNode(1, 0) EXCEPT !.children = <<2, 3, 4>>],
                     LateStart, LateStart * s),
           evaluated(child(1), 1, s),
           evaluated(child(2), 1, s),
           child(3) >>

LateInit ==
    /\ gen = GenIdle
    /\ svc = SvcIdle
    /\ scorer = ScorerIdle
    /\ analyzer = AnalyzerIdle
    /\ base_messages = BaseMessages
    /\ calls = [expansion |-> DEFAULT_MAX_CHILDREN, simulate |-> LateStart,
                score |-> LateStart]
    /\ cfg = [num_roots |-> 1, iterations |-> LateIterations]
    /\ nodes = LateNodes
    /\ root_nodes = <<1>>
    /\ stats = [InitStats(cfg) EXCEPT !.nodes_created = Len(LateNodes),
                                      !.nodes_evaluated = LateStart,
                                      !.parallel_evaluations = LateStart]
    /\ iteration = LateStart
    /\ pc = "loop"
    /\ nodes_to_process = <<>>
    /\ tasks = <<>>
    /\ completed = <<>>
    /\ results = <<>>
    /\ intIdx = 0
    /\ snap = <<>>

LateSpec == LateInit /\ [][Next]_vars


\* ------------------------------------- a run that goes on after a pruning
\* A run over one initial response at the head of its seventh iteration,
\* after the pruning of iteration 5 has removed the first child of the root:
\* the root was evaluated four times with overall_score 1.0 and got three
\* children, the first child was evaluated once with the default score 0.5,
\* which is below 0.7 * (5.5 / 6), and the second once with 1.0.
RefillIterations == 10

RefillNodes ==
    LET s == CHOOSE v \in ScoreValues : \A w \in ScoreValues : v >= w
        evaluated(node, v, t, m) ==
            [node EXCEPT !.visits = v, !.total_score = t,
                         !.avg_score = [num |-> t, den |-> v],
                         !.sub_history = "valid", !.metrics = m]
        child(i) == [NewNode(NewResponse(i, 1), i - 1) EXCEPT !.parent = 1]
    IN  << evaluated([NewNode(1, 0) EXCEPT !.children = <<3, 4>>],
                     LateStart, (LateStart - 1) * s + DefaultOverallScore,
                     "scored"),
           evaluated(child(1), 1, DefaultOverallScore, "default"),
           evaluated(child(2), 1, s, "scored"),
           child(3) >>

RefillInit ==
    /\ gen = GenIdle
    /\ svc = SvcIdle
    /\ scorer = ScorerIdle
    /\ analyzer = AnalyzerIdle
    /\ base_messages = BaseMessages
    /\ calls = [expansion |-> DEFAULT_MAX_CHILDREN, simulate |-> LateStart,
                score |-> LateStart]
    /\ cfg = [num_roots |-> 1, iterations |-> RefillIterations]
    /\ nodes = RefillNodes
    /\ root_nodes = <<1>>
    /\ stats = [InitStats(cfg) EXCEPT !.nodes_created = Len(RefillNodes),
                                      !.nodes_evaluated = LateStart,
                                      !.pruned_branches = 1,
                                      !.parallel_evaluations = LateStart]
    /\ iteration = LateStart
    /\ pc = "loop"
    /\ nodes_to_process = <<>>
    /\ tasks = <<>>
    /\ completed = <<>>
    /\ results = <<>>
    /\ intIdx = 0
    /\ snap = <<>>

RefillSpec == RefillInit /\ [][Next]_vars



\* ---------------------------------------------------------- cancellation
\* The task that runs run() is cancelled while it waits in asyncio.gather.
\* gather passes the cancellation on to every task that has not finished;
\* each of them gets CancelledError raised at the oracle call it is suspended
\* in, inside the oracle's "try: ... except Exception"; run() resumes with
\* CancelledError once every task has finished.
MaxCancelIterations == 3

\* "except BaseException"
ExceptBaseException(e) == TRUE

\* "except Exception": asyncio.CancelledError derives from BaseException
ExceptException(e) == e # "CancelledError"

\* One task of the fan-out when gather is cancelled
CancelTask(t) ==
    IF t.pc \notin {"expansion", "simulate", "score"} THEN t
    ELSE IF ~ExceptException("CancelledError") THEN [t EXCEPT !.pc = "cancelled"]
    ELSE CASE t.pc = "expansion" ->
                  [t EXCEPT !.pc = "simulate",
                            !.new_response = ExpansionResponse("fail"),
                            !.new_children = NewChildren("fail", 0)]
           [] t.pc = "simulate" ->
                  [t EXCEPT !.pc = "score", !.simulation = SimulationOf("fail")]
           [] OTHER ->
                  [t EXCEPT !.pc = "done",
                            !.metrics = MetricsOf([kind |-> "fail", value |-> 0]),
                            !.score = OverallScoreOf([kind |-> "fail", value |-> 0])]

\* What the tasks that go on after the cancellation write to their targets
CancelWrites(N, T) ==
    [n \in DOMAIN N |->
        IF \E j \in DOMAIN T :
              T[j].node = n /\ T[j].pc = "simulate" /\ CancelTask(T[j]).pc = "score"
        THEN [N[n] EXCEPT !.sub_history = SimulationOf("fail")]
        ELSE IF \E j \in DOMAIN T :
                   T[j].node = n /\ T[j].pc = "score" /\ CancelTask(T[j]).pc = "done"
             THEN [N[n] EXCEPT !.metrics = MetricsOf([kind |-> "fail", value |-> 0])]
             ELSE N[n]]

\* The oracle calls issued by the tasks that go on after the cancellation
CancelCalls(c, T) ==
    [c EXCEPT !.simulate = @ + Cardinality({j \in DOMAIN T :
                                 T[j].pc = "expansion" /\ CancelTask(T[j]).pc = "simulate"}),
              !.score = @ + Cardinality({j \in DOMAIN T :
                              T[j].pc = "simulate" /\ CancelTask(T[j]).pc = "score"})]

TaskFinished(t) == t.pc \in {"done", "raised", "cancelled"}

\* run(), line 58: the cancellation arrives during the fan-out
Cancel ==
    /\ pc = "gather"
    /\ tasks' = [j \in DOMAIN tasks |-> CancelTask(tasks[j])]
    /\ nodes' = CancelWrites(nodes, tasks)
    /\ LET finishes(j) == tasks[j].pc # "done" /\ tasks'[j].pc = "done"
       IN  completed' = completed \o SelectSeq([j \in DOMAIN tasks |-> j], finishes)
    /\ calls' = CancelCalls(calls, tasks)
    /\ pc' = "cancelling"
    /\ UNCHANGED <<cfg, root_nodes, stats, iteration, nodes_to_process, results,
                   intIdx, snap,
                   base_messages>>

\* run(), line 58: every task has finished and "await asyncio.gather" raises
\* CancelledError, which nothing in run() catches
GatherCancelled ==
    /\ pc = "cancelling"
    /\ \A j \in DOMAIN tasks : TaskFinished(tasks[j])
    /\ pc' = "cancelled"
    /\ UNCHANGED <<cfg, nodes, root_nodes, stats, iteration, nodes_to_process,
                   tasks, completed, results, intIdx, snap,
                   base_messages, calls>>

CancelInit == Init /\ cfg.iterations <= MaxCancelIterations

CancelNext ==
    \/ Next
    \/ Cancel /\ UNCHANGED <<gen, svc, scorer, analyzer>>
    \/ GatherCancelled /\ UNCHANGED <<gen, svc, scorer, analyzer>>

CancelSpec == CancelInit /\ [][CancelNext]_vars


\* ------------------------------------- a run with pruning parameters
\* The config dict given to run() may carry pruning parameters next to
\* "iterations": the values of MCTSConfig, or pruning after every iteration
\* of every visited root with ratio 1.0.
MaxTunedIterations == 5

PruningConfigs ==
    {[pruning_interval |-> PRUNING_INTERVAL,
      min_visits_for_pruning |-> MIN_VISITS_FOR_PRUNING,
      pruning_threshold_ratio |-> [num |-> ThresholdRatioNum, den |-> ThresholdRatioDen]],
     [pruning_interval |-> 1,
      min_visits_for_pruning |-> 1,
      pruning_threshold_ratio |-> [num |-> 1, den |-> 1]]}

TunedInit ==
    \E c \in Configs, p \in PruningConfigs :
        /\ c.iterations <= MaxTunedIterations
        /\ gen = GenIdle
        /\ svc = SvcIdle
        /\ scorer = ScorerIdle
        /\ analyzer = AnalyzerIdle
        /\ base_messages = BaseMessages
        /\ calls = NoCalls
        /\ cfg = [num_roots |-> c.num_roots, iterations |-> c.iterations,
                  pruning_interval |-> p.pruning_interval,
                  min_visits_for_pruning |-> p.min_visits_for_pruning,
                  pruning_threshold_ratio |-> p.pruning_threshold_ratio]
        /\ nodes = [i \in 1..c.num_roots |-> NewNode(i, i - 1)]
        /\ root_nodes = [i \in 1..c.num_roots |-> i]
        /\ stats = InitStats(c)
        /\ iteration = 0
        /\ pc = "loop"
        /\ nodes_to_process = <<>>
        /\ tasks = <<>>
        /\ completed = <<>>
        /\ results = <<>>
        /\ intIdx = 0
        /\ snap = <<>>

TunedSpec == TunedInit /\ [][Next]_vars


\* --------------------------------------------------- MCTSNode.add_child
\* MaxApiNodes node objects, freshly constructed, on which add_child is
\* called up to MaxAddChildCalls times, with any node as the parent and any
\* other node as the child.
MaxApiNodes == 3
MaxAddChildCalls == 3

NodeInit ==
    /\ gen = GenIdle
    /\ svc = SvcIdle
    /\ scorer = ScorerIdle
    /\ analyzer = AnalyzerIdle
    /\ base_messages = BaseMessages
    /\ calls = NoCalls
    /\ cfg = [num_roots |-> 0, iterations |-> 0]
    /\ nodes = [i \in 1..MaxApiNodes |-> NewNode(i, 0)]
    /\ root_nodes = <<>>
    /\ stats = InitStats(cfg)
    /\ iteration = 0
    /\ pc = "idle"
    /\ nodes_to_process = <<>>
    /\ tasks = <<>>
    /\ completed = <<>>
    /\ results = <<>>
    /\ intIdx = 0
    /\ snap = <<>>

\* parent.add_child(child)
AddChildCall ==
    /\ pc = "idle"
    /\ SumSeq([i \in DOMAIN nodes |-> Len(nodes[i].children)]) < MaxAddChildCalls
    /\ \E p, c \in DOMAIN nodes :
          /\ p # c
          /\ nodes' = AddChildNode(nodes, p, c)
    /\ UNCHANGED <<cfg, root_nodes, stats, iteration, pc, nodes_to_process,
                   tasks, completed, results, intIdx, snap, base_messages,
                   calls, gen, svc, scorer, analyzer>>

NodeNext == AddChildCall

NodeSpec == NodeInit /\ [][NodeNext]_vars


\* ------------------------------------------- TreeOperations.prune_branches
\* One call of prune_branches, as run() makes it (lines 70-71), on a forest
\* of two roots: root 1 has the children 3 and 4, node 3 has the children 5
\* and 6, node 4 has the child 8, and root 2 has the child 7.  A root has
\* one visit less than the pruning needs, or just enough; its avg_score is
\* 0.8 or 1.0; every other node is unvisited or was visited once with an
\* avg_score of 0.5, 0.6 or 0.8.
PruneParents == <<NoParent, NoParent, 1, 1, 3, 3, 2, 4>>

PruneRootVisits == {MIN_VISITS_FOR_PRUNING - 1, MIN_VISITS_FOR_PRUNING}
PruneRootScores == {8, ScoreScale}
PruneChildScores == {0, 5, 6, 8}

\* The children of node n of the forest, in the order of their creation
PruneChildrenOf(n) ==
    SelectSeq([i \in 1..Len(PruneParents) |-> i], LAMBDA i : PruneParents[i] = n)

\* The position of node n in the children list of its parent
PruneIndexOf(n) ==
    Cardinality({i \in 1..(n - 1) : PruneParents[i] = PruneParents[n]})

PruneForest(rootVisits, rootScore, childScore) ==
    [n \in 1..Len(PruneParents) |->
        LET v == IF PruneParents[n] = NoParent THEN rootVisits[n]
                 ELSE IF childScore[n] = 0 THEN 0 ELSE 1
            t == IF PruneParents[n] = NoParent THEN rootVisits[n] * rootScore[n]
                 ELSE childScore[n]
        IN  [NewNode(n, PruneIndexOf(n)) EXCEPT
                !.parent = PruneParents[n],
                !.children = PruneChildrenOf(n),
                !.visits = v,
                !.total_score = t,
                !.avg_score = IF v = 0 THEN [num |-> 0, den |-> 1]
                              ELSE [num |-> t, den |-> v]]]

PruneInit ==
    /\ gen = GenIdle
    /\ svc = SvcIdle
    /\ scorer = ScorerIdle
    /\ analyzer = AnalyzerIdle
    /\ base_messages = <<>>
    /\ calls = NoCalls
    /\ cfg = [num_roots |-> 2, iterations |-> 0]
    /\ \E rv \in [1..2 -> PruneRootVisits], rs \in [1..2 -> PruneRootScores],
          cs \in [3..Len(PruneParents) -> PruneChildScores] :
          nodes = PruneForest(rv, rs, cs)
    /\ root_nodes = <<1, 2>>
    /\ stats = [InitStats(cfg) EXCEPT !.nodes_created = Len(PruneParents)]
    /\ iteration = 0
    /\ pc = "prune"
    /\ nodes_to_process = <<>>
    /\ tasks = <<>>
    /\ completed = <<>>
    /\ results = <<>>
    /\ intIdx = 0
    /\ snap = <<>>

\* run(), lines 70-71: "pruned = prune_branches(root_nodes)" and
\* "stats["pruned_branches"] += pruned"
PruneBranchesCall ==
    /\ pc = "prune"
    /\ LET p == PruneBranches(nodes, root_nodes)
       IN  /\ nodes' = p.nodes
           /\ stats' = [stats EXCEPT !.pruned_branches = @ + p.pruned]
    /\ pc' = "pruned"
    /\ UNCHANGED <<cfg, root_nodes, iteration, nodes_to_process, tasks, completed,
                   results, intIdx, snap, base_messages, calls, gen, svc, scorer,
                   analyzer>>

PruneNext == PruneBranchesCall

PruneSpec == PruneInit /\ [][PruneNext]_vars



\* ------------------------------------------- MCTSAlgorithm._select_node
\* One call of _select_node on a root with max_children childless children.
\* A child is unvisited, or has 2..MaxChildVisits visits and an avg_score of
\* 0.4 or 0.6; the root was evaluated once before each expansion and at
\* most once after the last, and counts the visits of its children.
MaxChildVisits == 3

SelectScores == {4, 6}

SelectChildStats ==
    {[visits |-> 0, avg |-> 0]}
    \cup [visits : 2..MaxChildVisits, avg : SelectScores]

SelectForest(cs, extra) ==
    LET evaluated(node, v, t) ==
            [node EXCEPT !.visits = v, !.total_score = t,
                         !.avg_score = IF v = 0 THEN [num |-> 0, den |-> 1]
                                       ELSE [num |-> t, den |-> v]]
        sum == SumSeq([i \in 1..DEFAULT_MAX_CHILDREN |-> cs[i].visits])
        total == SumSeq([i \in 1..DEFAULT_MAX_CHILDREN |-> cs[i].visits * cs[i].avg])
        v1 == 1 + DEFAULT_MAX_CHILDREN + extra
    IN  [n \in 1..(DEFAULT_MAX_CHILDREN + 1) |->
            IF n = 1
            THEN evaluated([NewNode(1, 0) EXCEPT
                               !.children = [i \in 1..DEFAULT_MAX_CHILDREN |-> i + 1]],
                           v1 + sum, v1 * DefaultOverallScore + total)
            ELSE evaluated([NewNode(n, n - 2) EXCEPT !.parent = 1],
                           cs[n - 1].visits, cs[n - 1].visits * cs[n - 1].avg)]

SelectInit ==
    /\ gen = GenIdle
    /\ svc = SvcIdle
    /\ scorer = ScorerIdle
    /\ analyzer = AnalyzerIdle
    /\ base_messages = <<>>
    /\ calls = NoCalls
    /\ cfg = [num_roots |-> 1, iterations |-> 0]
    /\ \E cs \in [1..DEFAULT_MAX_CHILDREN -> SelectChildStats], extra \in 0..1 :
          nodes = SelectForest(cs, extra)
    /\ root_nodes = <<1>>
    /\ stats = [InitStats(cfg) EXCEPT !.nodes_created = DEFAULT_MAX_CHILDREN + 1]
    /\ iteration = 0
    /\ pc = "select"
    /\ nodes_to_process = <<>>
    /\ tasks = <<>>
    /\ completed = <<>>
    /\ results = <<>>
    /\ intIdx = 0
    /\ snap = <<>>

\* run(), lines 48-51: "await self._select_node(root, ...)" for every root
SelectNodeCall ==
    /\ pc = "select"
    /\ nodes_to_process' = [j \in 1..K |-> SelectNode(nodes, root_nodes[j])]
    /\ pc' = "selected"
    /\ UNCHANGED <<cfg, nodes, root_nodes, stats, iteration, tasks, completed,
                   results, intIdx, snap, base_messages, calls, gen, svc, scorer,
                   analyzer>>

SelectNext == SelectNodeCall

SelectSpec == SelectInit /\ [][SelectNext]_vars



\* ------------------------------------- ConversationAnalyzer.analyze_best_path
\* ScoringConfig.SCORE_WEIGHT_QUALITY and SCORE_WEIGHT_VISITS, in tenths
ScoreWeightQuality == 7
ScoreWeightVisits == 3
ScoreWeightDen == ScoreWeightQuality + ScoreWeightVisits

\* The key of _select_best_node without the quality term: the share of the
\* visits alone
BlendedScoreVisitsOnly(N, n, total_visits) ==
    IF total_visits > 0
    THEN [num |-> ScoreWeightVisits * N[n].visits,
          den |-> ScoreWeightDen * total_visits]
    ELSE [num |-> 0, den |-> 1]


\* The key of _select_best_node,
\*   n.avg_score * 0.7 + (n.visits / total_visits if total_visits > 0 else 0) * 0.3,
\* as a quotient
BlendedScore(N, n, total_visits) ==
    IF total_visits > 0
    THEN [num |-> ScoreWeightQuality * N[n].avg_score.num * total_visits
                  + ScoreWeightVisits * N[n].visits * ScoreScale * N[n].avg_score.den,
          den |-> ScoreWeightDen * ScoreScale * N[n].avg_score.den * total_visits]
    ELSE [num |-> ScoreWeightQuality * N[n].avg_score.num,
          den |-> ScoreWeightDen * ScoreScale * N[n].avg_score.den]

QuotientGreater(a, b) == a.num * b.den > b.num * a.den

\* _select_best_node with a max() that returns the last maximal element
SelectBestNodeLast(N, roots) ==
    LET total_visits == SumSeq([j \in 1..Len(roots) |-> N[roots[j]].visits])
        key(j) == BlendedScore(N, roots[j], total_visits)
    IN  CHOOSE i \in 1..Len(roots) :
            /\ \A j \in 1..Len(roots) : ~QuotientGreater(key(j), key(i))
            /\ \A j \in (i + 1)..Len(roots) : QuotientGreater(key(i), key(j))

\* ConversationAnalyzer._select_best_node: the position in roots of the node
\* that max() returns, the first maximal one
SelectBestNode(N, roots) ==
    LET total_visits == SumSeq([j \in 1..Len(roots) |-> N[roots[j]].visits])
        key(j) == BlendedScore(N, roots[j], total_visits)
    IN  CHOOSE i \in 1..Len(roots) :
            /\ \A j \in 1..Len(roots) : ~QuotientGreater(key(j), key(i))
            /\ \A j \in 1..(i - 1) : QuotientGreater(key(i), key(j))

\* analyze_best_path is called on up to MaxAnalyzerRoots childless roots,
\* each unvisited or with up to MaxAnalyzerVisits visits and an avg_score of
\* 0.4, 0.5 or 1.0, or on the roots that a run of up to MaxAnalyzedIterations
\* iterations returns.
MaxAnalyzerRoots == 3
MaxAnalyzerVisits == 2
MaxAnalyzedIterations == 3

AnalyzerScores == {4, DefaultOverallScore, ScoreScale}

AnalyzerRootStats ==
    {[visits |-> 0, avg |-> 0]}
    \cup [visits : 1..MaxAnalyzerVisits, avg : AnalyzerScores]

AnalyzerRoots(rs) ==
    [n \in DOMAIN rs |->
        [NewNode(n, n - 1) EXCEPT
            !.visits = rs[n].visits,
            !.total_score = rs[n].visits * rs[n].avg,
            !.avg_score = IF rs[n].visits = 0 THEN [num |-> 0, den |-> 1]
                          ELSE [num |-> rs[n].visits * rs[n].avg,
                                den |-> rs[n].visits]]]

AnalyzerInit ==
    \/ Init /\ cfg.iterations <= MaxAnalyzedIterations
    \/ /\ gen = GenIdle
       /\ svc = SvcIdle
       /\ scorer = ScorerIdle
       /\ analyzer = AnalyzerIdle
       /\ base_messages = BaseMessages
       /\ calls = NoCalls
       /\ \E k \in 1..MaxAnalyzerRoots : \E rs \in [1..k -> AnalyzerRootStats] :
             /\ cfg = [num_roots |-> k, iterations |-> 0]
             /\ nodes = AnalyzerRoots(rs)
             /\ root_nodes = [i \in 1..k |-> i]
       /\ stats = InitStats(cfg)
       /\ iteration = 0
       /\ pc = "idle"
       /\ nodes_to_process = <<>>
       /\ tasks = <<>>
       /\ completed = <<>>
       /\ results = <<>>
       /\ intIdx = 0
       /\ snap = <<>>

\* analyze_best_path on root_nodes, the roots that run() has returned or
\* that the caller has built: max() of an empty list raises ValueError;
\* otherwise the best root, its position (0-based) and the rationale, which
\* is the oracle's text or the template of _get_default_analysis
AnalyzeBestPath ==
    /\ pc \in {"done", "idle"}
    /\ analyzer.pc = "idle"
    /\ IF root_nodes = <<>>
       THEN analyzer' = [pc |-> "raised", error |-> "ValueError"]
       ELSE \E answered \in BOOLEAN :
               analyzer' = [pc |-> "returned",
                            best_root |-> root_nodes[SelectBestNode(nodes, root_nodes)],
                            best_idx |-> SelectBestNode(nodes, root_nodes) - 1,
                            analysis |-> IF answered THEN "rationale" ELSE "default"]
    /\ UNCHANGED <<engineVars, gen, svc, scorer>>

AnalyzerNext ==
    \/ Next
    \/ AnalyzeBestPath

AnalyzerSpec == AnalyzerInit /\ [][AnalyzerNext]_vars



\* the engine at rest, for the specifications of the other operations
EngineIdle ==
    /\ cfg = [num_roots |-> 0, iterations |-> 0]
    /\ nodes = <<>>
    /\ root_nodes = <<>>
    /\ stats = InitStats(cfg)
    /\ iteration = 0
    /\ pc = "idle"
    /\ nodes_to_process = <<>>
    /\ tasks = <<>>
    /\ completed = <<>>
    /\ results = <<>>
    /\ intIdx = 0
    /\ snap = <<>>
    /\ base_messages = <<>>
    /\ calls = NoCalls

\* ------------------------------------------- generate_initial_branches
\* ResponseConfig.DEFAULT_RESPONSES
DEFAULT_RESPONSES == <<"default1", "default2", "default3">>

\* Python's s[:n] for n >= 0
Prefix(s, n) == SubSeq(s, 1, IF n < Len(s) THEN n ELSE Len(s))

ReplyTexts == {"a", "b"}

RECURSIVE SeqsUpTo(_, _)
SeqsUpTo(S, n) ==
    IF n = 0 THEN {<<>>}
    ELSE LET shorter == SeqsUpTo(S, n - 1)
         IN  shorter \cup {Append(q, x) : q \in shorter, x \in S}

\* What the InitialBranches oracle call comes back with: a transport or
\* parse failure, parsed JSON without a "responses" key, or a dict whose
\* "responses" is a list of replies
InitialAnswers ==
    {[kind |-> "fail", responses |-> <<>>], [kind |-> "badshape", responses |-> <<>>]}
    \cup {[kind |-> "ok", responses |-> r] : r \in SeqsUpTo(ReplyTexts, MaxResponses)}

\* ResponseGenerator.generate_initial_branches, lines 25-40
GenerateInitialBranches(num_branches, ans) ==
    CASE ans.kind = "fail" -> Prefix(DEFAULT_RESPONSES, num_branches)
      [] ans.kind = "badshape" -> Prefix(DEFAULT_RESPONSES, num_branches)
      [] OTHER -> ans.responses

GenInit ==
    /\ EngineIdle
    /\ svc = SvcIdle
    /\ scorer = ScorerIdle
    /\ analyzer = AnalyzerIdle
    /\ \E n \in 1..MaxBranches : gen = [pc |-> "called", num_branches |-> n]

\* generate_initial_branches: the oracle call returns and so does the method
GenReturns ==
    /\ gen.pc = "called"
    /\ \E ans \in InitialAnswers :
          gen' = [pc |-> "returned", num_branches |-> gen.num_branches,
                  answer |-> ans,
                  result |-> GenerateInitialBranches(gen.num_branches, ans)]
    /\ UNCHANGED <<engineVars, svc, scorer, analyzer>>

GenNext == GenReturns

GenSpec == GenInit /\ [][GenNext]_vars

\* ------------------------------ ConversationAnalysisService.analyze_conversation
\* The keyword arguments _evaluate_branch gives to ConversationBranch(...)
BranchFieldsGiven ==
    {"response", "simulated_user_reactions", "eq_score", "sub_history",
     "scoring_breakdown"}

\* The fields of ConversationBranch declared with Field(...), i.e. required
BranchFieldsRequired ==
    {"response", "simulated_user_reactions", "score", "sub_history",
     "general_metrics", "goal_metrics"}

\* pydantic: constructing the model raises ValidationError when a required
\* field is not given
BranchConstructs == BranchFieldsRequired \subseteq BranchFieldsGiven

\* ConversationAnalysisRequest: the integer fields are declared without a
\* constraint, so a request carries any integers
RequestValues == -1..1

Requests ==
    [num_branches : RequestValues, simulation_depth : RequestValues,
     mcts_iterations : RequestValues]

\* analyze_conversation is entered with a request for a chat with
\* 0..MaxHistory messages
SvcInit ==
    /\ EngineIdle
    /\ gen = GenIdle
    /\ scorer = ScorerIdle
    /\ analyzer = AnalyzerIdle
    /\ \E h \in 0..MaxHistory, req \in Requests :
          svc = [pc |-> "history", history |-> h, request |-> req,
                 error |-> "none",
                 oracle_calls |-> 0, branches |-> 0, evals |-> <<>>]

\* analyze_conversation without "if not history: raise ValueError"
SvcGetHistoryUnchecked ==
    /\ svc.pc = "history"
    /\ svc' = [svc EXCEPT !.pc = "initial", !.oracle_calls = @ + 1]
    /\ UNCHANGED <<engineVars, gen, scorer, analyzer>>

\* analyze_conversation, lines 41-58
SvcGetHistory ==
    /\ svc.pc = "history"
    /\ svc' = IF svc.history = 0
              THEN [svc EXCEPT !.pc = "raised", !.error = "ValueError"]
              ELSE [svc EXCEPT !.pc = "initial", !.oracle_calls = @ + 1]
    /\ UNCHANGED <<engineVars, gen, scorer, analyzer>>

\* _generate_initial_branches, lines 179-193: the oracle call returns; a
\* failure of query_llm and a missing "responses" key are not caught.
\* _run_mcts, lines 213-218: one _evaluate_branch task per reply, each
\* suspended in its simulation call.
SvcInitialBranches ==
    /\ svc.pc = "initial"
    /\ \E kind \in {"fail", "badshape", "ok"}, m \in 0..MaxResponses :
          svc' = CASE kind = "fail" ->
                        [svc EXCEPT !.pc = "raised", !.error = "LLMException"]
                   [] kind = "badshape" ->
                        [svc EXCEPT !.pc = "raised", !.error = "KeyError"]
                   [] OTHER ->
                        [svc EXCEPT !.pc = "gather", !.branches = m,
                                    !.evals = [j \in 1..m |-> "simulate"],
                                    !.oracle_calls = @ + m]
    /\ UNCHANGED <<engineVars, gen, scorer, analyzer>>

\* _evaluate_branch, lines 303-326: the simulation call returns; a failure
\* is not caught; otherwise the scoring call is issued
SvcSimulateReturns(j) ==
    /\ j \in DOMAIN svc.evals
    /\ svc.evals[j] = "simulate"
    /\ \E ok \in BOOLEAN :
          svc' = IF ok
                 THEN [svc EXCEPT !.evals[j] = "score", !.oracle_calls = @ + 1]
                 ELSE [svc EXCEPT !.evals[j] = "raised"]
    /\ UNCHANGED <<engineVars, gen, scorer, analyzer>>

\* _evaluate_branch, lines 324-348, with _score_conversation_branch: the
\* scoring call returns; a failure is not caught; otherwise the
\* ConversationBranch is constructed
SvcScoreReturns(j) ==
    /\ j \in DOMAIN svc.evals
    /\ svc.evals[j] = "score"
    /\ \E ok \in BOOLEAN :
          svc' = IF ok /\ BranchConstructs
                 THEN [svc EXCEPT !.evals[j] = "done"]
                 ELSE [svc EXCEPT !.evals[j] = "raised"]
    /\ UNCHANGED <<engineVars, gen, scorer, analyzer>>

\* _run_mcts, line 218: a task raised and gather re-raises
SvcGatherRaises ==
    /\ svc.pc = "gather"
    /\ \E j \in DOMAIN svc.evals : svc.evals[j] = "raised"
    /\ svc' = [svc EXCEPT !.pc = "raised", !.error = "EvaluateBranchError"]
    /\ UNCHANGED <<engineVars, gen, scorer, analyzer>>

\* _run_mcts, lines 218-229: every task returned; max() over the scored
\* branches raises ValueError when there is none
SvcGatherReturns ==
    /\ svc.pc = "gather"
    /\ \A j \in DOMAIN svc.evals : svc.evals[j] = "done"
    /\ svc' = IF svc.branches = 0
              THEN [svc EXCEPT !.pc = "raised", !.error = "ValueError"]
              ELSE [svc EXCEPT !.pc = "select"]
    /\ UNCHANGED <<engineVars, gen, scorer, analyzer>>

SvcNext ==
    \/ SvcGetHistory
    \/ SvcInitialBranches
    \/ \E j \in 1..MaxResponses : SvcSimulateReturns(j)
    \/ \E j \in 1..MaxResponses : SvcScoreReturns(j)
    \/ SvcGatherRaises
    \/ SvcGatherReturns

SvcSpec == SvcInit /\ [][SvcNext]_vars

\* ------------------------------ ConversationScorer._validate_scoring_result
\* ScoringConfig.GENERAL_METRICS
GENERAL_METRICS ==
    {"clarity", "relevance", "engagement", "authenticity", "coherence",
     "respectfulness"}

\* The metric values the Score oracle answers with, in tenths
MetricValues == {4, ScoreScale}

NoMetrics == [m \in {} |-> 0]

\* sum(d.values())
RECURSIVE SumValues(_)
SumValues(d) ==
    IF DOMAIN d = {} THEN 0
    ELSE LET k == CHOOSE m \in DOMAIN d : TRUE
         IN  d[k] + SumValues([m \in DOMAIN d \ {k} |-> d[m]])

\* The parsed answers of the Score oracle: a dict that may lack
\* "general_metrics", "goal_metrics" and "overall_score", and whose
\* general_metrics may lack any of the required names
ParsedScores ==
    {[has_general_metrics |-> hg, general_metrics |-> gm,
      has_goal_metrics |-> hgoal, overall_score |-> o] :
        hg \in BOOLEAN,
        gm \in UNION {[S -> MetricValues] : S \in SUBSET GENERAL_METRICS},
        hgoal \in BOOLEAN,
        o \in {[present |-> FALSE, num |-> 0, den |-> 1]}
              \cup {[present |-> TRUE, num |-> v, den |-> 1] : v \in MetricValues}}

\* ConversationScorer._validate_scoring_result; overall_score as a quotient
ValidateScoringResult(result) ==
    LET given == IF result.has_general_metrics THEN result.general_metrics
                 ELSE NoMetrics
        filled == [m \in DOMAIN given \cup GENERAL_METRICS |->
                      IF m \in DOMAIN given THEN given[m] ELSE 0]
    IN  [has_general_metrics |-> TRUE,
         general_metrics |-> filled,
         has_goal_metrics |-> TRUE,
         overall_score |->
             IF result.overall_score.present THEN result.overall_score
             ELSE IF DOMAIN filled = {}
                  THEN [present |-> TRUE, num |-> 0, den |-> 1]
                  ELSE [present |-> TRUE, num |-> SumValues(filled),
                        den |-> Cardinality(DOMAIN filled)]]

\* score_simulation has the parsed answer of the oracle in hand (line 28)
ScorerInit ==
    /\ EngineIdle
    /\ gen = GenIdle
    /\ svc = SvcIdle
    /\ analyzer = AnalyzerIdle
    /\ \E r \in ParsedScores :
          /\ ~r.has_general_metrics => r.general_metrics = NoMetrics
          /\ scorer = [pc |-> "parsed", parsed |-> r, result |-> r]

\* score_simulation, line 30: "return self._validate_scoring_result(result)"
ScorerValidates ==
    /\ scorer.pc = "parsed"
    /\ scorer' = [scorer EXCEPT !.pc = "validated",
                                !.result = ValidateScoringResult(scorer.parsed)]
    /\ UNCHANGED <<engineVars, gen, svc, analyzer>>

ScorerNext == ScorerValidates

ScorerSpec == ScorerInit /\ [][ScorerNext]_vars



\* ====================================================== properties
RECURSIVE Subtree(_, _)
Subtree(N, n) ==
    {n} \cup UNION {Subtree(N, N[n].children[i]) : i \in 1..Len(N[n].children)}

ReachableNodes == UNION {Subtree(nodes, root_nodes[j]) : j \in 1..K}

SumRootVisits == SumSeq([j \in 1..K |-> nodes[root_nodes[j]].visits])

\* The nodes whose parent pointer is n but that are no longer in n.children
DetachedChildren(n) ==
    {m \in DOMAIN nodes :
        /\ nodes[m].parent = n
        /\ \A i \in 1..Len(nodes[n].children) : nodes[n].children[i] # m}

\* C1: every non-root node that is reachable from a root sits in its
\* parent's children list at the position its index field names.
ParentChildIndexInv ==
    \A n \in ReachableNodes :
        nodes[n].parent # NoParent =>
            /\ nodes[n].index + 1 \in 1..Len(nodes[nodes[n].parent].children)
            /\ nodes[nodes[n].parent].children[nodes[n].index + 1] = n

\* C2: when i iterations are completed, the visits of the K roots sum to
\* i * K; while the results of iteration i are integrated, every root
\* integrated so far has gained its one visit.
RootVisitsInv ==
    /\ pc \in {"loop", "done"} => SumRootVisits = iteration * K
    /\ pc = "done" => SumRootVisits = cfg.iterations * K
    /\ pc = "integrate" => SumRootVisits = iteration * K + (intIdx - 1)

\* C2 witness: a run over one root returned after pruning had run and
\* after iterations whose target was not the root.
RootVisitsWitness ==
    /\ pc = "done"
    /\ stats.pruned_branches > 0
    /\ K = 1
    /\ SumRootVisits = cfg.iterations
    /\ \E n \in DOMAIN nodes : nodes[n].parent # NoParent /\ nodes[n].visits > 0

\* C3: no node ever has more than max_children children.
MaxChildrenInv ==
    \A n \in DOMAIN nodes : Len(nodes[n].children) <= DEFAULT_MAX_CHILDREN

\* C3 witness: a node lost a child to pruning, was expanded again and is
\* fully expanded once more.
MaxChildrenWitness ==
    \E n \in DOMAIN nodes :
        /\ Len(nodes[n].children) = DEFAULT_MAX_CHILDREN
        /\ DetachedChildren(n) # {}

\* C4: avg_score is total_score / visits for a visited node, and an
\* unvisited node has total_score 0 and avg_score 0.
AvgScoreInv ==
    \A n \in DOMAIN nodes :
        /\ nodes[n].visits > 0 =>
              nodes[n].avg_score.num * nodes[n].visits
                  = nodes[n].total_score * nodes[n].avg_score.den
        /\ nodes[n].visits = 0 =>
              nodes[n].total_score = 0 /\ nodes[n].avg_score.num = 0

\* The same, for the states in which run() has not raised.
AvgScoreUnlessRaised == pc # "failed" => AvgScoreInv

\* ---- sequential reference of one iteration
\* What task j leaves in the arena when it runs alone from start to end
TaskWrites(N, node, T, j) ==
    [N EXCEPT ![node].sub_history = T[j].simulation,
              ![node].metrics = T[j].metrics]

\* The tasks run one after the other in root order, each on the target that
\* selection finds for its root in the arena N0 of the start of the iteration
RECURSIVE TasksInOrder(_, _, _, _)
TasksInOrder(N0, N, T, j) ==
    IF j > Len(T) THEN N
    ELSE TasksInOrder(N0, TaskWrites(N, SelectNode(N0, root_nodes[j]), T, j), T, j + 1)

\* Then their results are integrated in root order
RECURSIVE IntegrateInOrder(_, _, _, _, _)
IntegrateInOrder(N0, N, st, T, j) ==
    IF j > Len(T) THEN [nodes |-> N, stats |-> st]
    ELSE LET r == IntegrateOne(N, st, SelectNode(N0, root_nodes[j]),
                               [score |-> T[j].score,
                                new_children |-> T[j].new_children])
         IN  IntegrateInOrder(N0, r.nodes, r.stats, T, j + 1)

SequentialIteration ==
    IntegrateInOrder(snap.nodes,
                     TasksInOrder(snap.nodes, snap.nodes, tasks, 1),
                     [snap.stats EXCEPT !.parallel_evaluations = @ + Len(tasks)],
                     tasks, 1)

IntegrationComplete == pc = "integrate" /\ intIdx > Len(results)

\* C5: whatever the order in which the tasks of an iteration ran and
\* completed, once their results are integrated the forest and the
\* statistics are those of the sequential execution (task 1, ..., task K,
\* then integration in root order) with the same oracle answers.
OrderIndependentInv ==
    IntegrationComplete =>
        /\ nodes = SequentialIteration.nodes
        /\ stats = SequentialIteration.stats

\* C5 witness: two tasks with different results completed out of order and
\* were integrated.
OrderIndependentWitness ==
    /\ IntegrationComplete
    /\ completed = <<2, 1>>
    /\ results[1] # results[2]
    /\ iteration = 1

\* ---- what the integration may touch
TreeFields(node) == <<node.visits, node.total_score, node.avg_score, node.children>>

\* The nodes whose visits, total_score, avg_score or children differ between
\* the two arenas, new nodes included
TreeChanges(N, M) ==
    {n \in DOMAIN M : n \notin DOMAIN N \/ TreeFields(M[n]) # TreeFields(N[n])}

AllTasksDone == \A j \in DOMAIN tasks : tasks[j].pc = "done"

\* C6: statistics and children change only while run() integrates, after
\* every task of the iteration has returned; the turn of root j changes only
\* the tree of root j and hands over to root j + 1; a fan-out starts only
\* when no task is left and the previous integration is over.
IntegrationAfterJoin ==
    [][/\ TreeChanges(nodes, nodes') # {} =>
             /\ pc = "integrate"
             /\ AllTasksDone
             /\ \/ /\ intIdx \in 1..K
                   /\ TreeChanges(nodes, nodes') \subseteq
                          Subtree(nodes', root_nodes[intIdx])
                   /\ intIdx' = intIdx + 1 \/ pc' = "failed"
                \/ intIdx = K + 1 /\ pc' = "loop"
       /\ (pc = "loop" /\ pc' = "gather") =>
             /\ tasks = <<>>
             /\ results = <<>>
             /\ intIdx = 0
             /\ \A j \in DOMAIN tasks' : tasks'[j].pc \in {"expansion", "simulate"}
      ]_vars

\* C6 witness: both tasks of an iteration have returned, the result of the
\* first root is integrated and the second root is next.
IntegrationAfterJoinWitness ==
    /\ pc = "integrate"
    /\ K = 2
    /\ intIdx = 2
    /\ AllTasksDone
    /\ TreeChanges(snap.nodes, nodes) = {root_nodes[1], Len(nodes)}

\* While tasks are in flight their targets are pairwise distinct, the target
\* of task j lies in the tree of root j, and the trees of different roots
\* share no node.
TargetsDisjoint ==
    \A i \in DOMAIN tasks :
        /\ tasks[i].node \in Subtree(nodes, root_nodes[i])
        /\ \A j \in DOMAIN tasks :
              i # j =>
                  /\ tasks[i].node # tasks[j].node
                  /\ Subtree(nodes, root_nodes[i])
                         \cap Subtree(nodes, root_nodes[j]) = {}

TaskStep(j) == j \in DOMAIN tasks /\ j \in DOMAIN tasks' /\ tasks'[j] # tasks[j]

\* C7: concurrent tasks never race on the tree: the targets of the tasks in
\* flight are pairwise distinct nodes in pairwise disjoint root trees, and a
\* step of task j changes nothing in the arena but the evaluation data
\* (sub_history, metrics) of its own target.
NoTaskRaces ==
    /\ []TargetsDisjoint
    /\ [][\A j \in 1..K :
            (TaskStep(j) /\ pc' = pc) =>
                /\ DOMAIN nodes' = DOMAIN nodes
                /\ \A n \in DOMAIN nodes :
                      nodes'[n] # nodes[n] =>
                          /\ n = tasks[j].node
                          /\ TreeFields(nodes'[n]) = TreeFields(nodes[n])
                          /\ nodes'[n].response = nodes[n].response
                          /\ nodes'[n].parent = nodes[n].parent
                          /\ nodes'[n].index = nodes[n].index]_vars

\* C7 witness: two tasks are in flight, one has written its simulation to
\* its target and the other has not yet.
NoTaskRacesWitness ==
    /\ pc = "gather"
    /\ K = 2
    /\ iteration = 1
    /\ tasks[1].pc = "score"
    /\ tasks[2].pc = "expansion"
    /\ nodes[tasks[1].node].sub_history = "valid"
    /\ tasks[1].node # tasks[2].node

\* C8: no answer of an oracle makes run() raise.
OracleFailuresNeverFatal == pc # "failed"

\* C10: generate_initial_branches returns exactly num_branches replies.
ExactlyNumBranches ==
    gen.pc = "returned" => Len(gen.result) = gen.num_branches

\* C9: analyze_conversation on a chat with a non-empty history does not
\* end with an error.
AnalyzeBestEffort == svc.pc = "raised" => svc.history = 0

\* ---- what pruning detaches
ChildrenOf(N, n) == {N[n].children[i] : i \in 1..Len(N[n].children)}

RECURSIVE Ancestors(_, _)
Ancestors(N, n) ==
    IF N[n].parent = NoParent THEN {}
    ELSE {N[n].parent} \cup Ancestors(N, N[n].parent)

Reachable(N, roots) == UNION {Subtree(N, roots[j]) : j \in 1..Len(roots)}

\* The nodes that a step takes out of the children list of their parent
DetachedBy(N, M) ==
    {n \in DOMAIN N :
        /\ N[n].parent # NoParent
        /\ n \in ChildrenOf(N, N[n].parent)
        /\ n \notin ChildrenOf(M, N[n].parent)}

\* C11: no step changes the list of roots; a node that is taken out of its
\* parent's children list has visits > 0; and an unvisited node that stops
\* being reachable from the roots has a visited ancestor that was taken out
\* of its parent's children list in the same step.
PruneSafety ==
    [][/\ root_nodes' = root_nodes
       /\ \A n \in DetachedBy(nodes, nodes') : nodes[n].visits > 0
       /\ \A n \in Reachable(nodes, root_nodes) \ Reachable(nodes', root_nodes') :
             nodes[n].visits = 0 =>
                 \E a \in Ancestors(nodes, n) :
                     /\ a \in DetachedBy(nodes, nodes')
                     /\ nodes[a].visits > 0
      ]_vars

\* C11 witness: pruning has detached a visited child together with its
\* unvisited child, and has kept an unvisited node elsewhere in the tree.
PruneSafetyWitness ==
    /\ pc = "loop"
    /\ stats.pruned_branches > 0
    /\ \E n \in DOMAIN nodes \ ReachableNodes :
          /\ nodes[n].visits = 0
          /\ nodes[nodes[n].parent].visits > 0
          /\ DetachedChildren(nodes[nodes[n].parent].parent) = {nodes[n].parent}
    /\ \E m \in ReachableNodes : nodes[m].visits = 0


\* ---- backpropagation
\* run() is about to integrate a result whose score is a number
BackpropagationStep ==
    /\ pc = "integrate"
    /\ intIdx \in 1..Len(results)
    /\ results[intIdx].score.numeric
    /\ intIdx' = intIdx + 1

\* C12: backpropagating the score s of the target l of root r adds s to
\* total_score and 1 to visits on l and on every ancestor of l, r being the
\* last of them; that chain has one node per depth; every other node keeps
\* visits, total_score and avg_score, and a child attached in the same turn
\* starts unvisited.
BackpropagationSum ==
    [][BackpropagationStep =>
          LET l == nodes_to_process[intIdx]
              r == root_nodes[intIdx]
              s == results[intIdx].score.value
              chain == {l} \cup Ancestors(nodes, l)
          IN  /\ r \in chain
              /\ \A n \in chain : (n = r) <=> (nodes[n].parent = NoParent)
              /\ \A a, b \in chain :
                    Cardinality(Ancestors(nodes, a)) = Cardinality(Ancestors(nodes, b))
                        => a = b
              /\ \A n \in chain :
                    /\ nodes'[n].visits = nodes[n].visits + 1
                    /\ nodes'[n].total_score = nodes[n].total_score + s
              /\ \A n \in DOMAIN nodes \ chain :
                    /\ nodes'[n].visits = nodes[n].visits
                    /\ nodes'[n].total_score = nodes[n].total_score
                    /\ nodes'[n].avg_score = nodes[n].avg_score
              /\ \A n \in DOMAIN nodes' \ DOMAIN nodes :
                    nodes'[n].visits = 0 /\ nodes'[n].total_score = 0
      ]_vars

\* C12 witness: the result of a target below the root has been integrated
\* with a score other than the sibling's, in a tree with visited nodes off
\* the chain.
BackpropagationSumWitness ==
    /\ pc = "integrate"
    /\ intIdx = 2
    /\ K = 1
    /\ results[1].score.numeric
    /\ nodes[nodes_to_process[1]].parent = root_nodes[1]
    /\ nodes[nodes_to_process[1]].visits = 2
    /\ nodes[nodes_to_process[1]].total_score
           = snap.nodes[nodes_to_process[1]].total_score + results[1].score.value
    /\ nodes[root_nodes[1]].visits = snap.nodes[root_nodes[1]].visits + 1
    /\ \E m \in ChildrenOf(nodes, root_nodes[1]) \ {nodes_to_process[1]} :
          /\ nodes[m].visits > 0
          /\ nodes[m].total_score # nodes[nodes_to_process[1]].total_score


\* ---- termination
\* Every oracle call that is in flight eventually returns, and run() takes
\* its next step whenever it can.
FairSpec == Spec /\ WF_vars(Next)

\* run() returns only after the last configured iteration
NoEarlyStop == pc = "done" => iteration = cfg.iterations

\* run() eventually returns or raises
RunEnds == <>(pc \in {"done", "failed"})

\* C13: when every oracle call eventually returns, run() eventually returns
\* after exactly config.iterations iterations.
RunReturns == <>(pc = "done" /\ iteration = cfg.iterations)


\* ---- cancellation
RunCancelled == pc \in {"cancelling", "cancelled"}

NoHistoryFails ==
    (svc.history = 0 /\ svc.pc # "history") =>
        /\ svc.pc = "raised"
        /\ svc.error = "ValueError"
        /\ svc.oracle_calls = 0
        /\ svc.branches = 0
        /\ svc.evals = <<>>
        /\ root_nodes = <<>>
        /\ nodes = <<>>

\* C15 witness: the call on an empty history has ended with the error.
NoHistoryFailsWitness ==
    /\ svc.history = 0
    /\ svc.pc = "raised"
    /\ svc.error = "ValueError"


\* ---- validation of the request
NonPositiveRequest ==
    \/ svc.request.mcts_iterations <= 0
    \/ svc.request.num_branches <= 0
    \/ svc.request.simulation_depth <= 0

\* C16: analyze_conversation with a request whose mcts_iterations,
\* num_branches or simulation_depth is zero or negative issues no oracle
\* call and can only end with a validation error.
ValidationRejects ==
    NonPositiveRequest =>
        /\ svc.oracle_calls = 0
        /\ svc.pc \in {"history", "raised"}
        /\ svc.pc = "raised" => svc.error \in {"ValueError", "ValidationError"}


\* ---- pruning as the run's config asks for it
\* prune_branches with the run's min_visits_for_pruning and
\* pruning_threshold_ratio: the loop over the roots from position j on
RECURSIVE ConfiguredPruneFrom(_, _, _, _, _)
ConfiguredPruneFrom(N, roots, c, j, pruned) ==
    IF j > Len(roots)
    THEN [nodes |-> N, pruned |-> pruned]
    ELSE IF N[roots[j]].visits < c.min_visits_for_pruning
         THEN ConfiguredPruneFrom(N, roots, c, j + 1, pruned)
         ELSE LET thr == [num |-> N[roots[j]].avg_score.num
                                      * c.pruning_threshold_ratio.num,
                          den |-> N[roots[j]].avg_score.den
                                      * c.pruning_threshold_ratio.den]
                  r == PruneNodeChildren(N, roots[j], thr)
              IN  ConfiguredPruneFrom(r.nodes, roots, c, j + 1, pruned + r.pruned)

EndOfIteration == pc = "integrate" /\ pc' = "loop"

\* C17: at the end of iteration i the tree is pruned exactly when i > 0 and
\* i mod pruning_interval = 0 for the pruning_interval of the run's config,
\* with the config's min_visits_for_pruning and pruning_threshold_ratio, and
\* the count of that pruning is added to pruned_branches.
ConfiguredPruning ==
    [][EndOfIteration =>
          LET p == ConfiguredPruneFrom(nodes, root_nodes, cfg, 1, 0) IN
          IF iteration > 0 /\ iteration % cfg.pruning_interval = 0
          THEN /\ nodes' = p.nodes
               /\ stats'.pruned_branches = stats.pruned_branches + p.pruned
          ELSE /\ nodes' = nodes
               /\ stats'.pruned_branches = stats.pruned_branches
      ]_vars


\* ---- add_child
ParentsListing(c) ==
    {p \in DOMAIN nodes : \E i \in 1..Len(nodes[p].children) : nodes[p].children[i] = c}

\* C18: add_child refuses a child whose parent is already set, so that a
\* node is in the children list of at most one node, once, and that node is
\* its parent.
SingleParentInv ==
    \A c \in DOMAIN nodes :
        /\ Cardinality(ParentsListing(c)) <= 1
        /\ \A p \in ParentsListing(c) :
              /\ nodes[c].parent = p
              /\ Cardinality({i \in 1..Len(nodes[p].children) :
                                  nodes[p].children[i] = c}) = 1


\* ---- expansion
\* The task of root j was to expand its target: at selection time the target
\* had visits > 0 and fewer than max_children children, and the Expansion
\* oracle returned a string
ExpansionDue(j) ==
    /\ snap.nodes[nodes_to_process[j]].visits > 0
    /\ Len(snap.nodes[nodes_to_process[j]].children) < DEFAULT_MAX_CHILDREN
    /\ tasks[j].new_response \in {"reply", "empty"}

\* The nodes that a step adds to the children list of node n
Gained(n) == ChildrenOf(nodes', n) \ ChildrenOf(nodes, n)

\* A run over two roots with two iterations in which both expansions
\* succeeded has returned
ExpansionScenario ==
    (/\ pc = "done"
     /\ K = 2
     /\ cfg.iterations = 2
     /\ \A j \in 1..K : nodes[root_nodes[j]].children # <<>>) =>
        /\ \A j \in 1..K : Len(nodes[root_nodes[j]].children) = 1
        /\ stats.nodes_created = 4
        /\ stats.average_depth_explored.num = stats.average_depth_explored.den

\* C19: the arena grows only in the integration turn of a root, by one node,
\* which is unvisited and becomes a child of that root's expansion target
\* after the target's task has returned; the turn of root j attaches a child
\* exactly when the task of root j was to expand its target; an iteration is
\* not left with an expansion that was due and is not attached; and two
\* iterations over two roots with successful expansions end with one child
\* per root, nodes_created = 4 and average_depth_explored = 1.
ExpansionRule ==
    /\ []ExpansionScenario
    /\ [][/\ nodes' # nodes /\ (\E n \in DOMAIN nodes : Gained(n) # {} ) =>
                /\ pc = "integrate"
                /\ intIdx \in 1..K
                /\ tasks[intIdx].pc = "done"
                /\ Len(nodes') = Len(nodes) + 1
                /\ nodes'[Len(nodes')].visits = 0
                /\ nodes'[Len(nodes')].parent = nodes_to_process[intIdx]
                /\ \A n \in DOMAIN nodes :
                      Gained(n) = IF n = nodes_to_process[intIdx]
                                  THEN {Len(nodes')} ELSE {}
          /\ (pc = "integrate" /\ intIdx \in 1..K /\ (intIdx' # intIdx \/ pc' # pc)) =>
                (Len(nodes') = Len(nodes) + 1 <=> ExpansionDue(intIdx))
          /\ (pc = "gather" /\ pc' = "failed") =>
                \A j \in 1..K : ~ExpansionDue(j)
         ]_vars


\* ---- the conversation given to the Simulate oracle
\* C20: the conversation of every Simulate call in flight for root j starts
\* with the base history and continues with assistant messages, among them
\* the response of root j, the candidate reply under evaluation.
SimulateSeesCandidate ==
    \A j \in DOMAIN tasks :
        tasks[j].pc = "simulate" =>
            LET m == tasks[j].extended_messages
                b == Len(BaseMessages)
            IN  /\ Len(m) >= b
                /\ SubSeq(m, 1, b) = BaseMessages
                /\ \E i \in (b + 1)..Len(m) :
                      m[i] = [role |-> "assistant",
                              content |-> nodes[root_nodes[j]].response]



\* ---- the conversation path of an expansion target
Depth(N, n) == Cardinality(Ancestors(N, n))

\* The node at depth i on the path from the root of n down to n
OnPathAt(N, n, i) == CHOOSE a \in {n} \cup Ancestors(N, n) : Depth(N, a) = i

\* m is the base history followed by one assistant message for every node
\* below the root on the path to n, in root-to-target order
PathOfTarget(m, n) ==
    LET b == Len(BaseMessages)
        d == Depth(nodes, n)
    IN  /\ Len(m) = b + d
        /\ SubSeq(m, 1, b) = BaseMessages
        /\ \A i \in 1..d :
              m[b + i] = [role |-> "assistant",
                          content |-> nodes[OnPathAt(nodes, n, i)].response]

RootOf(N, n) ==
    IF N[n].parent = NoParent THEN n
    ELSE CHOOSE a \in Ancestors(N, n) : N[a].parent = NoParent

\* Node d fails the pruning test of its tree: its root has the visits that
\* pruning needs, d is visited, and avg_score(d) < avg_score(root) * ratio
FailsPruning(N, d) ==
    LET r == RootOf(N, d) IN
    /\ d # r
    /\ N[r].visits >= MIN_VISITS_FOR_PRUNING
    /\ N[d].visits > 0
    /\ N[d].avg_score.num * N[r].avg_score.den * ThresholdRatioDen
           < N[r].avg_score.num * ThresholdRatioNum * N[d].avg_score.den

\* The failing nodes that are reached through ancestors that do not fail
ToDetach(N, roots) ==
    {d \in Reachable(N, roots) :
        FailsPruning(N, d) /\ \A a \in Ancestors(N, d) : ~FailsPruning(N, a)}

\* A call of prune_branches: the one of PruneSpec, or the one at the end of
\* an iteration in which pruning is due
PruningStep ==
    \/ pc = "prune" /\ pc' = "pruned"
    \/ EndOfIteration /\ PruningDue(iteration)

\* C22: prune_branches takes out of their parents' children lists exactly
\* the nodes d, reached through kept ancestors in the tree of a root r with
\* r.visits >= min_visits_for_pruning, that have d.visits > 0 and
\* d.avg_score < r.avg_score * ratio; with them their whole subtrees stop
\* being reachable and nothing else does; the kept children stay in their
\* order and no other field changes; the trees of the roots with fewer visits
\* stay as they are; and the count it returns is the number of nodes that
\* were reachable from the roots before the call and are not after it.
PruneExactly ==
    [][PruningStep =>
          LET before == Reachable(nodes, root_nodes)
              after == Reachable(nodes', root_nodes')
              gone == UNION {Subtree(nodes, d) : d \in ToDetach(nodes, root_nodes)}
          IN  /\ DetachedBy(nodes, nodes') = ToDetach(nodes, root_nodes)
              /\ after = before \ gone
              /\ stats'.pruned_branches - stats.pruned_branches
                     = Cardinality(before \ after)
              /\ DOMAIN nodes' = DOMAIN nodes
              /\ \A n \in DOMAIN nodes :
                    /\ nodes'[n] = [nodes[n] EXCEPT !.children = nodes'[n].children]
                    /\ n \in after =>
                          nodes'[n].children =
                              SelectSeq(nodes[n].children,
                                        LAMBDA c : c \notin ToDetach(nodes, root_nodes))
              /\ \A j \in 1..Len(root_nodes) :
                    nodes[root_nodes[j]].visits < MIN_VISITS_FOR_PRUNING =>
                        \A n \in Subtree(nodes, root_nodes[j]) : nodes'[n] = nodes[n]
      ]_vars

\* C22 witness: after the call, root 2, one visit short, still has a child
\* that is below 0.7 of its avg_score; in the tree of root 1 (avg_score 1.0)
\* the child 3 (0.8) is kept and its child 5 (0.6) is gone, although it is
\* above 0.7 of its parent's avg_score; the child 4 (0.5) is gone with its
\* unvisited child 8; the unvisited node 6 is kept; the count is 3.
PruneExactlyWitness ==
    /\ pc = "pruned"
    /\ nodes[2].visits = MIN_VISITS_FOR_PRUNING - 1
    /\ nodes[2].children = <<7>>
    /\ nodes[7].visits > 0
    /\ nodes[7].avg_score.num * nodes[2].avg_score.den * ThresholdRatioDen
           < nodes[2].avg_score.num * ThresholdRatioNum * nodes[7].avg_score.den
    /\ nodes[1].visits = MIN_VISITS_FOR_PRUNING
    /\ nodes[1].children = <<3>>
    /\ nodes[3].children = <<6>>
    /\ nodes[6].visits = 0
    /\ nodes[5].avg_score.num * nodes[3].avg_score.den * ThresholdRatioDen
           >= nodes[3].avg_score.num * ThresholdRatioNum * nodes[5].avg_score.den
    /\ nodes[4].children = <<8>>
    /\ nodes[8].visits = 0
    /\ stats.pruned_branches = 3



\* ---- UCB1 selection
\* The position of child c in the children list of p
PositionIn(N, p, c) == CHOOSE i \in 1..Len(N[p].children) : N[p].children[i] = c

EqualAvg(N, a, b) ==
    N[a].avg_score.num * N[b].avg_score.den = N[b].avg_score.num * N[a].avg_score.den

\* c is the child of p that best_child has to return
SelectionRules(N, p, c) ==
    LET ch == ChildrenOf(N, p)
        unvisited == {x \in ch : N[x].visits = 0}
        before(x, y) == PositionIn(N, p, x) < PositionIn(N, p, y)
    IN  /\ c \in ch
        /\ unvisited # {} =>
              /\ c \in unvisited
              /\ \A x \in unvisited \ {c} : before(c, x)
        /\ unvisited = {} =>
              /\ \A x \in ch : ~KeyGreater(Ucb1Score(N, p, x), Ucb1Score(N, p, c))
              /\ \A x \in ch \ {c} :
                    Ucb1Score(N, p, x) = Ucb1Score(N, p, c) => before(c, x)
              /\ \A x \in ch \ {c} :
                    (EqualAvg(N, x, c) /\ N[x].visits = N[c].visits) => before(c, x)
              /\ \A x \in ch \ {c} :
                    EqualAvg(N, x, c) => N[x].visits >= N[c].visits

\* The arena on which the targets of nodes_to_process were selected
SelectedOn == IF pc = "selected" THEN nodes ELSE snap.nodes

\* C23: every step of a descent takes the child that the rules name: the
\* first unvisited child in insertion order if there is one, otherwise the
\* child with the largest ucb value, the smallest index among equals; so of
\* two children with equal visits and avg_score the one with the higher index
\* is never taken, and of two children with equal avg_score the one with more
\* visits is never taken.
SelectionDeterministic ==
    pc \in {"selected", "gather"} =>
        \A j \in DOMAIN nodes_to_process :
            \A a \in {nodes_to_process[j]} \cup Ancestors(SelectedOn, nodes_to_process[j]) :
                SelectedOn[a].parent # NoParent =>
                    SelectionRules(SelectedOn, SelectedOn[a].parent, a)

\* C23 witness: all children are visited and have the same avg_score, the
\* first has more visits than the other two, which have equal visits, and
\* the second child was selected.
SelectionWitness ==
    /\ pc = "selected"
    /\ nodes_to_process = <<nodes[1].children[2]>>
    /\ \A c \in ChildrenOf(nodes, 1) : nodes[c].visits > 0
    /\ EqualAvg(nodes, nodes[1].children[1], nodes[1].children[2])
    /\ EqualAvg(nodes, nodes[1].children[2], nodes[1].children[3])
    /\ nodes[nodes[1].children[1]].visits > nodes[nodes[1].children[2]].visits
    /\ nodes[nodes[1].children[2]].visits = nodes[nodes[1].children[3]].visits



\* ---- the Analyzer's choice
TotalRootVisits == SumSeq([j \in 1..K |-> nodes[root_nodes[j]].visits])

\* 0.7 * avg_score + 0.3 * (visits / total_root_visits) of root j is less
\* than that of root i, for total_root_visits > 0; both sides are multiplied
\* by 10 * total_root_visits * den(j) * den(i) * ScoreScale
BlendedLess(j, i) ==
    LET a == nodes[root_nodes[j]]
        b == nodes[root_nodes[i]]
    IN  (ScoreWeightQuality * a.avg_score.num * TotalRootVisits
             + ScoreWeightVisits * a.visits * ScoreScale * a.avg_score.den)
            * b.avg_score.den
        < (ScoreWeightQuality * b.avg_score.num * TotalRootVisits
             + ScoreWeightVisits * b.visits * ScoreScale * b.avg_score.den)
            * a.avg_score.den

\* avg_score of root j is less than that of root i
AvgLess(j, i) ==
    nodes[root_nodes[j]].avg_score.num * nodes[root_nodes[i]].avg_score.den
        < nodes[root_nodes[i]].avg_score.num * nodes[root_nodes[j]].avg_score.den

\* C24: the root the Analyzer returns maximises
\* 0.7 * avg_score + 0.3 * (visits / total_root_visits), the visits term
\* being 0 for every root when total_root_visits is 0, and no root before it
\* reaches the same value; after a run with iterations = 0, in which every
\* root has visits 0 and avg_score 0 and average_depth_explored is 0, it
\* returns index 0.
AnalyzerSelects ==
    analyzer.pc = "returned" =>
        LET i == analyzer.best_idx + 1 IN
        /\ i \in 1..K
        /\ analyzer.best_root = root_nodes[i]
        /\ TotalRootVisits > 0 =>
              /\ \A j \in 1..K : ~BlendedLess(i, j)
              /\ \A j \in 1..(i - 1) : BlendedLess(j, i)
        /\ TotalRootVisits = 0 =>
              /\ \A j \in 1..K : ~AvgLess(i, j)
              /\ \A j \in 1..(i - 1) : AvgLess(j, i)
        /\ (pc = "done" /\ cfg.iterations = 0) =>
              /\ \A j \in 1..K :
                    /\ nodes[root_nodes[j]].visits = 0
                    /\ nodes[root_nodes[j]].avg_score.num = 0
              /\ stats.average_depth_explored.num = 0
              /\ analyzer.best_idx = 0

\* C24 witness: of three roots the first has the highest avg_score, and the
\* third is returned because its share of the visits outweighs that; the
\* second root, with the same values as the third, comes before it in no
\* respect but its index and has fewer visits.
AnalyzerSelectsWitness ==
    /\ analyzer.pc = "returned"
    /\ pc = "idle"
    /\ K = 3
    /\ analyzer.best_idx = 2
    /\ AvgLess(3, 1)
    /\ nodes[root_nodes[3]].visits > nodes[root_nodes[1]].visits
    /\ nodes[root_nodes[3]].visits > nodes[root_nodes[2]].visits
    /\ ~AvgLess(2, 3) /\ ~AvgLess(3, 2)

\* A run with iterations = 0 over two roots has returned and the Analyzer
\* has returned index 0
AnalyzerZeroIterations ==
    /\ analyzer.pc = "returned"
    /\ pc = "done"
    /\ cfg.iterations = 0
    /\ K = 2
    /\ analyzer.best_idx = 0



\* ---- oracle calls
\* The tasks of the current fan-out whose position is one of pcs
TasksAt(pcs) == Cardinality({j \in DOMAIN tasks : tasks[j].pc \in pcs})

PresentMetrics ==
    IF scorer.parsed.has_general_metrics THEN scorer.parsed.general_metrics
    ELSE NoMetrics

\* Every required metric is in the validated result: with the scorer's value
\* if it had one, with 0.0 if not; and a present overall_score is kept
ValidationFillsDefaults ==
    scorer.pc = "validated" =>
        /\ \A m \in GENERAL_METRICS :
              /\ m \in DOMAIN scorer.result.general_metrics
              /\ scorer.result.general_metrics[m] =
                     IF m \in DOMAIN PresentMetrics THEN PresentMetrics[m] ELSE 0
        /\ scorer.parsed.overall_score.present =>
              scorer.result.overall_score = scorer.parsed.overall_score

\* C26: after the validation every required general metric is present, the
\* missing ones with 0.0; a present overall_score is unchanged; a missing
\* overall_score is the mean of the general-metric values that the scorer's
\* output carried, the inserted defaults not counted, or 0 if it carried none.
ValidationMeanOfPresent ==
    /\ ValidationFillsDefaults
    /\ (scorer.pc = "validated" /\ ~scorer.parsed.overall_score.present) =>
          /\ scorer.result.overall_score.present
          /\ IF DOMAIN PresentMetrics = {}
             THEN scorer.result.overall_score.num = 0
             ELSE scorer.result.overall_score.num * Cardinality(DOMAIN PresentMetrics)
                      = SumValues(PresentMetrics) * scorer.result.overall_score.den

\* What the code computes for a missing overall_score: the mean over the
\* required metrics after the defaults were inserted
ValidationMeanOfFilled ==
    (scorer.pc = "validated" /\ ~scorer.parsed.overall_score.present) =>
        scorer.result.overall_score.num * Cardinality(GENERAL_METRICS)
            = SumValues(PresentMetrics) * scorer.result.overall_score.den



\* ---- the node counters
\* C27: at the end of every iteration, after the integration and the pruning
\* if one was due, nodes_created - pruned_branches is the number of nodes
\* that are reachable from the roots, the roots included.
NodeCountInv ==
    pc \in {"loop", "done"} =>
        stats.nodes_created - stats.pruned_branches = Cardinality(ReachableNodes)

\* C27 witness: an iteration has ended after a pruning that took a child out
\* together with a child of its own, so that the arena holds more nodes than
\* are reachable.
NodeCountWitness ==
    /\ pc = "loop"
    /\ stats.pruned_branches >= 2
    /\ stats.nodes_created = Len(nodes)
    /\ Cardinality(ReachableNodes) = Len(nodes) - stats.pruned_branches
    /\ \E n \in DOMAIN nodes \ ReachableNodes :
          /\ nodes[n].children # <<>>
          /\ n \in DetachedChildren(nodes[n].parent)



\* ---- expansion and visits
\* C28: a node with visits = 0 has no children and a node with visits v > 0
\* has at most v - 1 children: a node gets no child before it was simulated
\* once and at most one child with each later simulation of itself.
ChildrenBelowVisits ==
    \A n \in DOMAIN nodes :
        /\ nodes[n].visits = 0 => nodes[n].children = <<>>
        /\ nodes[n].visits > 0 => Len(nodes[n].children) <= nodes[n].visits - 1

\* C28 witness: a node below the root was simulated twice and got its one
\* child with the second simulation; that child is unvisited and childless.
ChildrenBelowVisitsWitness ==
    \E n \in ReachableNodes :
        /\ nodes[n].parent # NoParent
        /\ nodes[n].visits = 2
        /\ Len(nodes[n].children) = 1
        /\ nodes[nodes[n].children[1]].visits = 0
        /\ nodes[nodes[n].children[1]].children = <<>>



\* ---- the arguments of the UCB1 formula
\* The nodes on which the descent to target has called best_child
BestChildCalledOn(N, target) == Ancestors(N, target)

\* C29: whenever the descent calls best_child on a node p, p.visits >=
\* max_children + 1, so that ln(p.visits) is defined and positive, and every
\* child of p that is scored with the formula, the unvisited ones getting
\* inf, has visits >= 1, so that nothing is divided by zero; also after
\* pruning has removed children.
BestChildArguments ==
    [][(pc = "loop" /\ pc' = "gather") =>
          \A j \in 1..K :
              \A p \in BestChildCalledOn(nodes, nodes_to_process'[j]) :
                  /\ nodes[p].visits >= DEFAULT_MAX_CHILDREN + 1
                  /\ LnMicro(nodes[p].visits) > 0
                  /\ \A c \in ChildrenOf(nodes, p) :
                        ~Ucb1Score(nodes, p, c).inf => nodes[c].visits >= 1]_vars

\* C29 witness: the pruning had removed the first child of the root, the
\* root got another child, and the next descent has called best_child on the
\* root, which scored one child with the formula and took an unvisited one.
BestChildArgumentsWitness ==
    /\ pc = "gather"
    /\ stats.pruned_branches > 0
    /\ \E p \in BestChildCalledOn(nodes, nodes_to_process[1]) :
          /\ \E c \in ChildrenOf(nodes, p) : ~Ucb1Score(nodes, p, c).inf
          /\ nodes[nodes_to_process[1]].visits = 0
          /\ \E d \in DOMAIN nodes :
                /\ nodes[d].parent = p
                /\ d \notin ChildrenOf(nodes, p)



\* ---- the Analyzer after a completed run
\* C30: after a completed run of N >= 0 iterations every root has visits N,
\* so the visits term of the blended score is the same for every root, and
\* the root the Analyzer returns has the highest avg_score, and is the first
\* root with that avg_score.
AnalyzerAfterRun ==
    pc = "done" =>
        /\ \A j \in 1..K : nodes[root_nodes[j]].visits = cfg.iterations
        /\ TotalRootVisits = K * cfg.iterations
        /\ analyzer.pc = "returned" =>
              LET i == analyzer.best_idx + 1 IN
              /\ i \in 1..K
              /\ analyzer.best_root = root_nodes[i]
              /\ \A j \in 1..K : ~AvgLess(i, j)
              /\ \A j \in 1..(i - 1) : AvgLess(j, i)

\* C30 witness: a run of two iterations over two roots has returned, both
\* roots have two visits, the second root has the higher avg_score and the
\* Analyzer has returned it.
AnalyzerAfterRunWitness ==
    /\ pc = "done"
    /\ analyzer.pc = "returned"
    /\ K = 2
    /\ cfg.iterations = 2
    /\ nodes[root_nodes[1]].visits = 2
    /\ nodes[root_nodes[2]].visits = 2
    /\ AvgLess(1, 2)
    /\ analyzer.best_idx = 1


====
